---- MODULE Spec2Model ----
(***************************************************************************)
(* js-model: a Model instance behind its property-intercepting Proxy       *)
(* (src/src/Model.ts), with the subtype TestModel of tests/Model.test.ts,  *)
(* a Collection of such models (src/src/Collection.ts) and an arbitrary    *)
(* storage adapter (DataProxy) whose promises settle in any order with any *)
(* result or any error.                                                    *)
(***************************************************************************)
EXTENDS Integers, Sequences, FiniteSets, Bags, TLC

VARIABLES model, pending, ev, committed, written, coll, persisted

vars == <<model, pending, ev, committed, written, coll, persisted>>

(* ------------------------------------------------------------------ *)
(* Bounds                                                              *)
(* ------------------------------------------------------------------ *)

\* largest raw number an external write or an adapter patch carries
MaxRaw == 1
\* largest number of adapter calls in flight on the instance
MaxPending == 1
\* largest number of models in the collection
MaxModels == 3
\* largest number of items an adapter's query result carries
MaxResults == 2
\* largest number of adapter calls in flight where calls overlap
MaxOverlap == 2

(* ------------------------------------------------------------------ *)
(* JavaScript values: every value is a one-field record tagged by type *)
(* ------------------------------------------------------------------ *)

Undefined == [undefined |-> TRUE]
NaN == [nan |-> TRUE]
Num(n) == [number |-> n]
Str(s) == [string |-> s]
IsNum(val) == DOMAIN val = {"number"}
IsStr(val) == DOMAIN val = {"string"}
Bool(b) == [boolean |-> b]

\* an object literal {} : a function with an empty domain
EmptyObject == <<>>

\* target[prop]: the value of an own property, undefined when there is none
Read(obj, prop) == IF prop \in DOMAIN obj THEN obj[prop] ELSE Undefined

\* obj[prop] = val on a plain object
Store(obj, prop, val) == (prop :> val) @@ obj

(* ------------------------------------------------------------------ *)
(* The subtype: TestModel                                              *)
(* ------------------------------------------------------------------ *)

\* declared fields with their defaults, in declaration order
defaults == << <<"name", Str("leer")>>, <<"alwaysPlusOne", Num(0)>> >>

\* alwaysPlusOne: (val: number) => val + 1
PlusOne(val) == IF IsNum(val) THEN Num(val.number + 1) ELSE NaN

\* Object.keys(target.mutations()): the table of TestModel and, under the
\* name "seen", a function that reads the instance it is applied to
mutations == {"alwaysPlusOne", "seen"}

\* the prototype's getter-only accessors: get nameLen()
derived == {"nameLen"}

\* String.prototype.length of the strings in use
stringLength(s) == CASE s = "leer" -> 4 [] s = "foobar" -> 6 [] s = "y" -> 1

\* typeof this.name === 'string' ? this.name.length : 0
nameLen(this) ==
    IF "name" \in DOMAIN this.props /\ IsStr(this.props["name"])
    THEN Num(stringLength(this.props["name"].string))
    ELSE Num(0)

\* the getter behind a derived property name
getter(this, prop) == CASE prop = "nameLen" -> nameLen(this)

\* the order in which an object built by the library or its callers lists
\* the property names in use: declared fields in declaration order, then ad
\* hoc fields, then derived names (the order getProps() builds its result
\* in), then the internal fields a patch may name
KeyOrder ==
    <<"name", "alwaysPlusOne", "x", "seen", "nameLen", "_isPhantom", "_isDestroyed">>

\* Object.keys(obj) of such an object
ownKeys(obj) == SelectSeq(KeyOrder, LAMBDA k : k \in DOMAIN obj)

\* the mutation functions that do not look at their context
mutFn(prop, val) == CASE prop = "alwaysPlusOne" -> PlusOne(val)

\* seen: function (val) { return { raw: val, dirty: this.isDirty(),
\*     captured: 'seen' in this.getDirtyProps(),
\*     old: this.seen === undefined ? undefined : this.seen.raw } }
\* what the function reports of the instance it is applied to
seen(receiver, val) ==
    [seen |-> [raw |-> val,
               dirty |-> DOMAIN receiver._dirtyProps # {},
               captured |-> "seen" \in DOMAIN receiver._dirtyProps,
               old |-> IF "seen" \in DOMAIN receiver.props /\ DOMAIN receiver.props["seen"] = {"seen"}
                       THEN receiver.props["seen"].seen.raw
                       ELSE Undefined]]

\* mut[prop].apply(receiver, [newValue])
applyMutation(receiver, prop, val) ==
    IF prop = "seen" THEN seen(receiver, val) ELSE mutFn(prop, val)

(* ------------------------------------------------------------------ *)
(* Inputs                                                              *)
(* ------------------------------------------------------------------ *)

\* data property names a caller or an adapter patch writes: the declared
\* fields and one undeclared (ad hoc) one
DataKeys == {"name", "alwaysPlusOne", "x"}

\* the declared fields
Declared == {"name", "alwaysPlusOne"}

RawOf(prop) ==
    CASE prop = "name" -> {Str("leer"), Str("foobar")}
      [] prop = "alwaysPlusOne" -> {Num(n) : n \in 0..MaxRaw}
      [] prop = "x" -> {Str("y")}
      [] prop = "nameLen" -> {Num(4)}
      [] prop = "seen" -> {Num(n) : n \in 0..MaxRaw}
      [] prop \in {"_isPhantom", "_isDestroyed"} -> BOOLEAN

AllRaw == UNION {RawOf(k) : k \in DataKeys}

\* PropertiesObject: the plain objects with keys among `keys`
PatchesOver(keys) ==
    UNION { {p \in [S -> UNION {RawOf(k) : k \in keys}] : \A k \in S : p[k] \in RawOf(k)} :
            S \in SUBSET keys }

\* the plain data objects over the declared fields
Patches == PatchesOver(Declared)

\* objects that carry a derived name besides data, as getProps() and toJSON()
\* produce them and as an adapter echoing them returns them
EchoPatches == {p \in PatchesOver({"name"} \cup derived) : DOMAIN p \cap derived # {}}

\* what an adapter promise resolves to: PropertiesObject | null
NullResult == [null |-> TRUE, data |-> EmptyObject]
Patch(p) == [null |-> FALSE, data |-> p]
Results == {NullResult} \cup {Patch(p) : p \in Patches}

\* what an adapter promise rejects with
Errors == {"fail!", "timeout"}

\* a settled adapter promise: fulfilled with a result or rejected with a reason
Fulfilled(res) == [ok |-> TRUE, res |-> res, reason |-> ""]
Rejected(reason) == [ok |-> FALSE, res |-> NullResult, reason |-> reason]
Settlements == {Fulfilled(r) : r \in Results} \cup {Rejected(e) : e \in Errors}

\* an adapter that answers with no data, or fails
PlainSettlements == {Fulfilled(NullResult), Rejected("fail!")}

\* the settlements of an adapter that echoes what it was sent, or fails
EchoSettlements == {Fulfilled(Patch(p)) : p \in EchoPatches} \cup {Rejected("fail!")}

\* what push() and an adapter's query result carry: a plain data object, or
\* a model instance somebody built
Data(p) == [kind |-> "data", data |-> p, model |-> <<>>]
Instance(m) == [kind |-> "model", data |-> EmptyObject, model |-> m]

\* a model instance the collection holds already, by its reference
Contained(r) == [kind |-> "ref", data |-> EmptyObject, model |-> <<>>, ref |-> r]

\* a position given to at() and remove()
Index(i) == [kind |-> "index", index |-> i]

\* the value of opts?.append in query(queryParams, opts): missing, a boolean,
\* or something truthy that is not true
AppendOpts == {Undefined, Bool(TRUE), Bool(FALSE), Num(1)}

\* the names and values of permanent parameters, and the objects
\* setQueryParams is called with
ParamKeys == {"p1", "p2"}
ParamValues == {"bar"}
ParamSets == {[p1 |-> "bar"], [p1 |-> "baz", p2 |-> "bar"]}

\* per-call queryParams (null and undefined spread like {})
CallParams == {EmptyObject, [p1 |-> "foo"]}

(* ------------------------------------------------------------------ *)
(* proxyHandler.set                                                    *)
(* ------------------------------------------------------------------ *)

internalModelProps ==
    {"_dirtyProps", "_rollbackMode", "_isPhantom", "_isDestroyed", "_className", "_queryParams"}

\* target[prop] on the raw instance: an own data property, a getter of the
\* prototype, or undefined
ReadTarget(target, prop) ==
    IF prop \in DOMAIN target.props THEN target.props[prop]
    ELSE IF prop \in derived THEN getter(target, prop)
    ELSE Undefined

\* Object.keys(target._dirtyProps) once prop is captured: prop comes last.
\* Writes of data properties commute, so as long as no getter-only name is
\* among the keys they are listed in the order of KeyOrder
capturedKeys(target, prop) ==
    IF prop \in DOMAIN target._dirtyProps THEN target.dirtyKeys
    ELSE IF prop \in derived \/ DOMAIN target._dirtyProps \cap derived # {}
    THEN Append(target.dirtyKeys, prop)
    ELSE SelectSeq(KeyOrder, LAMBDA k : k = prop \/ k \in DOMAIN target._dirtyProps)

\* a write that captures the pre-write value on every write, not only the first
ProxySetRecapture(target, prop, newValue) ==
    IF target.thrown # "" THEN target
    ELSE IF prop \in internalModelProps
    THEN IF prop = "_dirtyProps"
         THEN [target EXCEPT !._dirtyProps = newValue, !.dirtyKeys = ownKeys(newValue)]
         ELSE [target EXCEPT ![prop] = newValue]
    ELSE LET captures == TRUE
             t == IF captures
                  THEN [target EXCEPT
                           !._dirtyProps = Store(@, prop, ReadTarget(target, prop)),
                           !.dirtyKeys = capturedKeys(target, prop)]
                  ELSE target
             val == IF target._rollbackMode # TRUE /\ prop \in mutations
                    THEN applyMutation(t, prop, newValue)
                    ELSE newValue
         IN IF prop \in derived
            THEN [t EXCEPT !.thrown = "TypeError"]
            ELSE [t EXCEPT !.props = Store(@, prop, val)]

\* a write with the rollback-mode test inverted
ProxySetInverted(target, prop, newValue) ==
    IF target.thrown # "" THEN target
    ELSE IF prop \in internalModelProps
    THEN IF prop = "_dirtyProps"
         THEN [target EXCEPT !._dirtyProps = newValue, !.dirtyKeys = ownKeys(newValue)]
         ELSE [target EXCEPT ![prop] = newValue]
    ELSE LET captures == prop \notin DOMAIN target._dirtyProps
             t == IF captures
                  THEN [target EXCEPT
                           !._dirtyProps = Store(@, prop, ReadTarget(target, prop)),
                           !.dirtyKeys = capturedKeys(target, prop)]
                  ELSE target
             val == IF target._rollbackMode = TRUE /\ prop \in mutations
                    THEN applyMutation(t, prop, newValue)
                    ELSE newValue
         IN IF prop \in derived
            THEN [t EXCEPT !.thrown = "TypeError"]
            ELSE [t EXCEPT !.props = Store(@, prop, val)]

\* a write that captures only when the value it stores differs from the stored one
ProxySetIfChanged(target, prop, newValue) ==
    IF target.thrown # "" THEN target
    ELSE IF prop \in internalModelProps
    THEN IF prop = "_dirtyProps"
         THEN [target EXCEPT !._dirtyProps = newValue, !.dirtyKeys = ownKeys(newValue)]
         ELSE [target EXCEPT ![prop] = newValue]
    ELSE LET val == IF target._rollbackMode # TRUE /\ prop \in mutations
                    THEN applyMutation(target, prop, newValue)
                    ELSE newValue
             captures == prop \notin DOMAIN target._dirtyProps /\ ReadTarget(target, prop) # val
             t == IF captures
                  THEN [target EXCEPT
                           !._dirtyProps = Store(@, prop, ReadTarget(target, prop)),
                           !.dirtyKeys = capturedKeys(target, prop)]
                  ELSE target
         IN IF prop \in derived
            THEN [t EXCEPT !.thrown = "TypeError"]
            ELSE [t EXCEPT !.props = Store(@, prop, val)]

\* a write that applies the mutation function before it captures
ProxySetMutatesFirst(target, prop, newValue) ==
    IF target.thrown # "" THEN target
    ELSE IF prop \in internalModelProps
    THEN IF prop = "_dirtyProps"
         THEN [target EXCEPT !._dirtyProps = newValue, !.dirtyKeys = ownKeys(newValue)]
         ELSE [target EXCEPT ![prop] = newValue]
    ELSE LET val == IF target._rollbackMode # TRUE /\ prop \in mutations
                    THEN applyMutation(target, prop, newValue)
                    ELSE newValue
             captures == prop \notin DOMAIN target._dirtyProps
             t == IF captures
                  THEN [target EXCEPT
                           !._dirtyProps = Store(@, prop, ReadTarget(target, prop)),
                           !.dirtyKeys = capturedKeys(target, prop)]
                  ELSE target
         IN IF prop \in derived
            THEN [t EXCEPT !.thrown = "TypeError"]
            ELSE [t EXCEPT !.props = Store(@, prop, val)]

\* the set trap. The instance record carries, besides the fields of the
\* object, dirtyKeys (the keys of _dirtyProps in the order rollback() replays
\* them, which is their insertion order) and thrown
\* (the exception the running method is unwinding with, "" when none: every
\* later write of the method is skipped). A getter-only name is captured and
\* then target[prop] = newValue throws, the module being strict code.
ProxySet(target, prop, newValue) ==
    IF target.thrown # "" THEN target
    ELSE IF prop \in internalModelProps
    THEN IF prop = "_dirtyProps"
         THEN [target EXCEPT !._dirtyProps = newValue, !.dirtyKeys = ownKeys(newValue)]
         ELSE [target EXCEPT ![prop] = newValue]
    ELSE LET captures == prop \notin DOMAIN target._dirtyProps
             t == IF captures
                  THEN [target EXCEPT
                           !._dirtyProps = Store(@, prop, ReadTarget(target, prop)),
                           !.dirtyKeys = capturedKeys(target, prop)]
                  ELSE target
             val == IF target._rollbackMode # TRUE /\ prop \in mutations
                    THEN applyMutation(t, prop, newValue)
                    ELSE newValue
         IN IF prop \in derived
            THEN [t EXCEPT !.thrown = "TypeError"]
            ELSE [t EXCEPT !.props = Store(@, prop, val)]

\* the instance once the exception has left the method
Caught(this) == [this EXCEPT !.thrown = ""]

\* Object.assign(target, source): one proxied write per own key of source, in
\* the order keys lists them
RECURSIVE assignKeys(_, _, _)
assignKeys(target, source, keys) ==
    IF keys = <<>> THEN target
    ELSE assignKeys(ProxySet(target, Head(keys), source[Head(keys)]), source, Tail(keys))

assign(target, source) == assignKeys(target, source, ownKeys(source))

(* ------------------------------------------------------------------ *)
(* class Model                                                         *)
(* ------------------------------------------------------------------ *)

\* set(keyOrData: object)
set(this, keyOrData) == assign(this, keyOrData)

\* set(keyOrData: string, data)
setKey(this, key, data) == assign(this, key :> data)

\* get(key)
get(this, key) == Read(this.props, key)

isDirty(this) == DOMAIN this._dirtyProps # {}

isPhantom(this) == this._isPhantom

isDestroyed(this) == this._isDestroyed

\* a commit that clears the snapshot before it applies the data
commitThenSet(this, data) ==
    LET t == ProxySet(this, "_dirtyProps", EmptyObject)
    IN IF ~data.null THEN set(t, data.data) ELSE t

\* a commit that stores the data as given, without the mutation functions
commitRaw(this, data) ==
    LET t1 == ProxySet(this, "_rollbackMode", TRUE)
        t2 == IF ~data.null THEN set(t1, data.data) ELSE t1
        t3 == ProxySet(t2, "_rollbackMode", FALSE)
    IN ProxySet(t3, "_dirtyProps", EmptyObject)

\* a commit that also marks the instance as persisted
commitPersists(this, data) ==
    LET t == IF ~data.null THEN set(this, data.data) ELSE this
    IN ProxySet(ProxySet(t, "_dirtyProps", EmptyObject), "_isPhantom", FALSE)

\* commit(data?): data is a result, null standing for a missing argument
commit(this, data) ==
    LET t == IF ~data.null THEN set(this, data.data) ELSE this
    IN ProxySet(t, "_dirtyProps", EmptyObject)

\* a rollback that replays the snapshot without entering rollback mode
rollbackMutating(this) ==
    LET t2 == assignKeys(this, this._dirtyProps, this.dirtyKeys)
    IN ProxySet(t2, "_dirtyProps", EmptyObject)

\* a rollback that skips the snapshot entries holding undefined
rollbackSkipsAbsent(this) ==
    LET t1 == ProxySet(this, "_rollbackMode", TRUE)
        t2 == assignKeys(t1, t1._dirtyProps,
                         SelectSeq(t1.dirtyKeys, LAMBDA k : t1._dirtyProps[k] # Undefined))
        t3 == ProxySet(t2, "_dirtyProps", EmptyObject)
    IN ProxySet(t3, "_rollbackMode", FALSE)

\* rollback()
rollback(this) ==
    LET t1 == ProxySet(this, "_rollbackMode", TRUE)
        t2 == assignKeys(t1, t1._dirtyProps, t1.dirtyKeys)
        t3 == ProxySet(t2, "_dirtyProps", EmptyObject)
    IN ProxySet(t3, "_rollbackMode", FALSE)

\* Object.keys(dirty).forEach((key) => { dirty[key] = this.get(key) })
RECURSIVE fillDirty(_, _, _)
fillDirty(this, dirty, keys) ==
    IF keys = <<>> THEN dirty
    ELSE fillDirty(this, Store(dirty, Head(keys), get(this, Head(keys))), Tail(keys))

\* a getDirtyProps that fills the snapshot itself instead of a copy of it
getDirtyPropsAliased(this) ==
    LET dirty == fillDirty(this, this._dirtyProps, this.dirtyKeys)
    IN [this |-> [this EXCEPT !._dirtyProps = dirty], result |-> dirty]

\* getDirtyProps(): the instance as the call leaves it, and the result
getDirtyProps(this) ==
    LET dirty == this._dirtyProps
    IN [this |-> this, result |-> fillDirty(this, dirty, this.dirtyKeys)]

\* Object.keys(this): the internal fields, then the data properties
instanceKeys(this) ==
    <<"_dirtyProps", "_rollbackMode", "_isPhantom", "_isDestroyed", "_className",
      "_queryParams">> \o ownKeys(this.props)

\* the accessors with a getter among the own property descriptors of the
\* instance's prototype
protoGetters == <<"nameLen">>

\* keys.forEach((k) => Reflect.set(props, k, this.get(k)))
RECURSIVE readInto(_, _, _)
readInto(this, props, keys) ==
    IF keys = <<>> THEN props
    ELSE readInto(this, Store(props, Head(keys), get(this, Head(keys))), Tail(keys))

\* for (prop in protoProps) Reflect.set(props, prop, Reflect.get(this, prop))
RECURSIVE readGetters(_, _, _)
readGetters(this, props, keys) ==
    IF keys = <<>> THEN props
    ELSE readGetters(this, Store(props, Head(keys), getter(this, Head(keys))), Tail(keys))

\* a getProps without the filter on the internal fields
getPropsUnfiltered(this) ==
    readGetters(this, readInto(this, EmptyObject, instanceKeys(this)), protoGetters)

getProps(this) ==
    LET own == SelectSeq(instanceKeys(this), LAMBDA k : k \notin internalModelProps)
    IN readGetters(this, readInto(this, EmptyObject, own), protoGetters)

toJSON(this) == getProps(this)

\* get queryParams(): a copy of the permanent parameters
queryParams(this) == this._queryParams

\* a merge in which the permanent parameters win
mergeParamsPermanentWins(this, callParams) == queryParams(this) @@ callParams

\* { ...this.queryParams, ...queryParams }
mergeParams(this, callParams) == callParams @@ queryParams(this)

\* setQueryParam(key, value), of Model and of Collection
setQueryParam(this, key, value) ==
    [this EXCEPT !._queryParams = Store(@, key, value)]

\* a setQueryParams in which the stored parameters win
setQueryParamsKeepsOld(this, params) ==
    [this EXCEPT !._queryParams = @ @@ params]

\* setQueryParams(params), of Model and of Collection (on a model the
\* assignment passes the set trap's internal-field branch, which stores the
\* new object as it is)
setQueryParams(this, params) ==
    [this EXCEPT !._queryParams = params @@ @]

\* removeQueryParam(key), of Model and of Collection
removeQueryParam(this, key) ==
    [this EXCEPT !._queryParams = [k \in DOMAIN @ \ {key} |-> @[k]]]

\* const q = this.queryParams; q[key] = value: the instance as the caller's
\* change of the returned object leaves it, and that object
changeReturned(this, key, value) ==
    [this |-> this, result |-> Store(queryParams(this), key, value)]

\* what an async method hands its caller: the instance, fulfilled or rejected
\* with a reason; `applied` and `committed` say whether the resumed code ran
\* set(res) and commit()
Throws(this, reason) ==
    [this |-> Caught(this), rejected |-> TRUE, reason |-> reason,
     applied |-> FALSE, committed |-> FALSE]
Returns(this, applied, committed_) ==
    IF this.thrown # "" THEN Throws(this, this.thrown)
    ELSE [this |-> this, rejected |-> FALSE, reason |-> "",
          applied |-> applied, committed |-> committed_]

\* a load that commits and marks the instance persisted in a finally block
loadResumeFinally(this, settled) ==
    LET t1 == IF settled.ok /\ ~settled.res.null THEN set(this, settled.res.data) ELSE this
        t2 == commit(t1, NullResult)
        t3 == ProxySet(ProxySet(t2, "_isPhantom", FALSE), "_isDestroyed", FALSE)
    IN IF ~settled.ok
       THEN [Throws(t3, settled.reason) EXCEPT !.committed = t3.thrown = ""]
       ELSE Returns(t3, ~settled.res.null, TRUE)

\* a load that only marks the instance persisted: no patch, no commit
loadResumeFlagOnly(this, settled) ==
    IF ~settled.ok THEN Throws(this, settled.reason)
    ELSE Returns(ProxySet(this, "_isPhantom", FALSE), FALSE, FALSE)

\* load(), from the settling of the awaited fetch on
loadResume(this, settled) ==
    IF ~settled.ok THEN Throws(this, settled.reason)
    ELSE LET t1 == IF ~settled.res.null THEN set(this, settled.res.data) ELSE this
             t2 == commit(t1, NullResult)
             t3 == ProxySet(t2, "_isPhantom", FALSE)
         IN Returns(ProxySet(t3, "_isDestroyed", FALSE), ~settled.res.null, TRUE)

\* a save with the phantom test inverted
saveMethodInverted(this) == IF isPhantom(this) THEN "update" ELSE "create"

\* a save that takes the create path only for a destroyed model
saveMethodIfDestroyed(this) == IF isDestroyed(this) THEN "create" ELSE "update"

\* a save that takes the update path when a call is in flight already
saveMethodOnce(this) == IF isPhantom(this) /\ pending = EmptyBag THEN "create" ELSE "update"

\* save(), up to the await: the adapter method it invokes
saveMethod(this) == IF isPhantom(this) THEN "create" ELSE "update"

\* a save that leaves the destroyed flag alone
saveResumeKeepsDestroyed(this, settled) ==
    IF ~settled.ok THEN Throws(this, settled.reason)
    ELSE LET t1 == IF ~settled.res.null THEN set(this, settled.res.data) ELSE this
             t2 == commit(t1, NullResult)
         IN Returns(ProxySet(t2, "_isPhantom", FALSE), ~settled.res.null, TRUE)

\* a save that ends by dropping what was written and not committed
saveResumeRollsBack(this, settled) ==
    IF ~settled.ok THEN Throws(this, settled.reason)
    ELSE LET t1 == IF ~settled.res.null THEN set(this, settled.res.data) ELSE this
             t2 == rollback(t1)
             t3 == ProxySet(t2, "_isPhantom", FALSE)
         IN Returns(ProxySet(t3, "_isDestroyed", FALSE), ~settled.res.null, TRUE)

\* a save that leaves the flags alone when the model was destroyed while its
\* adapter call was in flight
saveResumeUnlessDestroyed(this, settled) ==
    IF ~settled.ok THEN Throws(this, settled.reason)
    ELSE LET t1 == IF ~settled.res.null THEN set(this, settled.res.data) ELSE this
             t2 == commit(t1, NullResult)
             t3 == IF isDestroyed(this) THEN t2 ELSE ProxySet(t2, "_isPhantom", FALSE)
             t4 == IF isDestroyed(this) THEN t3 ELSE ProxySet(t3, "_isDestroyed", FALSE)
         IN Returns(t4, ~settled.res.null, TRUE)

\* save(), from the settling of the awaited create or update on
saveResume(this, settled) ==
    IF ~settled.ok THEN Throws(this, settled.reason)
    ELSE LET t1 == IF ~settled.res.null THEN set(this, settled.res.data) ELSE this
             t2 == commit(t1, NullResult)
             t3 == ProxySet(t2, "_isPhantom", FALSE)
         IN Returns(ProxySet(t3, "_isDestroyed", FALSE), ~settled.res.null, TRUE)

\* a destroy without the phantom guard
destroyCallsAlways(this) == TRUE

\* destroy(), up to the await: whether it invokes the adapter's delete
destroyCalls(this) == ~isPhantom(this)

\* a destroy that commits whether or not the adapter returned a patch
destroyResumeCommits(this, settled) ==
    IF ~settled.ok THEN Throws(this, settled.reason)
    ELSE LET t1 == IF ~settled.res.null THEN set(this, settled.res.data) ELSE this
             t2 == commit(t1, NullResult)
             t3 == ProxySet(t2, "_isPhantom", TRUE)
         IN Returns(ProxySet(t3, "_isDestroyed", TRUE), ~settled.res.null, TRUE)

\* a destroy that marks the instance destroyed and leaves the phantom flag alone
destroyResumeKeepsPhantom(this, settled) ==
    IF ~settled.ok THEN Throws(this, settled.reason)
    ELSE LET t1 == IF ~settled.res.null
                   THEN commit(set(this, settled.res.data), NullResult)
                   ELSE this
         IN Returns(ProxySet(t1, "_isDestroyed", TRUE), ~settled.res.null, ~settled.res.null)

\* destroy(), from the settling of the awaited delete on
destroyResume(this, settled) ==
    IF ~settled.ok THEN Throws(this, settled.reason)
    ELSE LET t1 == IF ~settled.res.null
                   THEN commit(set(this, settled.res.data), NullResult)
                   ELSE this
             t2 == ProxySet(t1, "_isPhantom", TRUE)
         IN Returns(ProxySet(t2, "_isDestroyed", TRUE), ~settled.res.null, ~settled.res.null)

\* the constructor: the base class's part, then the subtype's field
\* initialisers, which run as writes on the returned proxy
RECURSIVE initFields(_, _)
initFields(this, fields) ==
    IF fields = <<>> THEN this
    ELSE initFields(ProxySet(this, Head(fields)[1], Head(fields)[2]), Tail(fields))

\* a constructor that leaves the instance marked as persisted
constructPersisted ==
    LET base == [props |-> EmptyObject, _dirtyProps |-> EmptyObject,
                 _queryParams |-> EmptyObject, _rollbackMode |-> FALSE,
                 _isPhantom |-> FALSE, _isDestroyed |-> FALSE,
                 _className |-> "TestModel",
                 dirtyKeys |-> <<>>, thrown |-> ""]
    IN initFields(commit(base, NullResult), defaults)

construct ==
    LET base == [props |-> EmptyObject, _dirtyProps |-> EmptyObject,
                 _queryParams |-> EmptyObject, _rollbackMode |-> FALSE,
                 _isPhantom |-> TRUE, _isDestroyed |-> FALSE,
                 _className |-> "TestModel",
                 dirtyKeys |-> <<>>, thrown |-> ""]
    IN initFields(commit(base, NullResult), defaults)

\* a constructor that commits after the field initialisers have run
constructCommitsLast(cls, fields) ==
    LET base == [props |-> EmptyObject, _dirtyProps |-> EmptyObject,
                 _queryParams |-> EmptyObject, _rollbackMode |-> FALSE,
                 _isPhantom |-> TRUE, _isDestroyed |-> FALSE,
                 _className |-> cls,
                 dirtyKeys |-> <<>>, thrown |-> ""]
    IN commit(initFields(base, fields), NullResult)

\* new cls() of a subtype cls that declares `fields`: this._className =
\* this.constructor.name, the initial commit, then the field initialisers
constructOf(cls, fields) ==
    LET base == [props |-> EmptyObject, _dirtyProps |-> EmptyObject,
                 _queryParams |-> EmptyObject, _rollbackMode |-> FALSE,
                 _isPhantom |-> TRUE, _isDestroyed |-> FALSE,
                 _className |-> cls,
                 dirtyKeys |-> <<>>, thrown |-> ""]
    IN initFields(commit(base, NullResult), fields)

\* el instanceof cls, for the instances in use: each is built by the
\* constructor its _className names
instanceOf(el, cls) == el._className = cls

(* ------------------------------------------------------------------ *)
(* class Collection: `this` is [_models, backing, heap, _queryParams],   *)
(* _models the references the backing array holds, backing the identity  *)
(* of that array object, heap[r] the instance behind reference r         *)
(* ------------------------------------------------------------------ *)

\* no instance
null == 0

\* a reference no instance has yet
newRef(this) == CHOOSE r \in 1..(Len(this.heap) + 1) : r \notin DOMAIN this.heap

\* setPhantom(isPhantom)
setPhantom(this, isPhantom_) == ProxySet(this, "_isPhantom", isPhantom_)

\* a clear that assigns a new empty array
clearReplacing(this) ==
    IF Len(this._models) > 0
    THEN [this EXCEPT !._models = <<>>, !.backing = @ + 1]
    ELSE this

\* clear(): this._models.splice(0), in place
clear(this) ==
    IF Len(this._models) > 0 THEN [this EXCEPT !._models = <<>>] ELSE this

\* modelCls of TestCollection
modelCls == "TestModel"

\* a push that builds a new model also for an instance it is given
pushCopies(this, el) ==
    LET m == IF el.kind = "model" THEN el.model
             ELSE IF el.kind = "ref" THEN this.heap[el.ref]
             ELSE Caught(set(constructOf(modelCls, defaults), el.data))
        r == CHOOSE r \in 1..(Len(this.heap) + 1) : r \notin DOMAIN this.heap
    IN [this EXCEPT !.heap = Append(@, m), !._models = Append(@, r)]

\* a push that commits the model it builds from plain data
pushCommits(this, el) ==
    IF el.kind = "ref" THEN [this EXCEPT !._models = Append(@, el.ref)]
    ELSE LET m == IF el.kind = "model" THEN el.model
                  ELSE commit(Caught(set(constructOf(modelCls, defaults), el.data)), NullResult)
             r == CHOOSE r \in 1..(Len(this.heap) + 1) : r \notin DOMAIN this.heap
         IN [this EXCEPT !.heap = Append(@, m), !._models = Append(@, r)]

\* push(el), el a model instance or a plain data object
push(this, el) ==
    IF el.kind = "ref" THEN [this EXCEPT !._models = Append(@, el.ref)]
    ELSE LET m == IF el.kind = "model" THEN el.model
                  ELSE Caught(set(constructOf(modelCls, defaults), el.data))
             r == newRef(this)
         IN [this EXCEPT !.heap = Append(@, m), !._models = Append(@, r)]

\* push(el), el an array: el.forEach((item) => this.push(item))
RECURSIVE pushAll(_, _)
pushAll(this, els) ==
    IF els = <<>> THEN this ELSE pushAll(push(this, Head(els)), Tail(els))

\* length()
length(this) == Len(this._models)

\* getModels(): the backing array itself
getModels(this) == [array |-> this.backing, items |-> this._models]

\* first()
first(this) ==
    IF Len(this._models) > 0 THEN this._models[1] ELSE null

\* last()
last(this) ==
    IF Len(this._models) > 0 THEN this._models[Len(this._models)] ELSE null

\* an at that counts a negative index from the end, as Array.prototype.at does
atFromEnd(this, index) ==
    LET i == IF index < 0 THEN Len(this._models) + index ELSE index
    IN IF i >= 0 /\ i < Len(this._models) THEN this._models[i + 1] ELSE 0

\* at(index), index zero-based
at(this, index) ==
    IF index >= 0 /\ index < length(this) THEN this._models[index + 1] ELSE null

\* this._models.indexOf(el): the first position holding the reference, -1
\* when none does (an instance the collection does not hold has none)
indexOf(this, el) ==
    IF el.kind = "ref" /\ \E i \in DOMAIN this._models : this._models[i] = el.ref
    THEN (CHOOSE i \in DOMAIN this._models :
              /\ this._models[i] = el.ref
              /\ \A j \in 1..(i - 1) : this._models[j] # el.ref) - 1
    ELSE -1

\* Array.prototype.splice(start, deleteCount) for start >= 0: start is
\* clamped to the length, deleteCount to what follows start
splice(seq, start, deleteCount) ==
    LET s == IF start > Len(seq) THEN Len(seq) ELSE start
        d == IF deleteCount > Len(seq) - s THEN Len(seq) - s ELSE deleteCount
    IN SubSeq(seq, 1, s) \o SubSeq(seq, s + d + 1, Len(seq))

\* a remove without the test idx >= 0: splice counts a negative start from
\* the end of the array
removeUnguarded(this, el) ==
    LET idx == IF el.kind = "index" THEN el.index ELSE indexOf(this, el)
        start == IF idx >= 0 THEN idx
                 ELSE IF Len(this._models) + idx >= 0 THEN Len(this._models) + idx
                 ELSE 0
    IN [this EXCEPT !._models = splice(@, start, 1)]

\* a remove that takes out every position holding the model
removeEvery(this, el) ==
    IF el.kind = "index"
    THEN IF el.index >= 0 THEN [this EXCEPT !._models = splice(@, el.index, 1)] ELSE this
    ELSE IF indexOf(this, el) >= 0
    THEN [this EXCEPT !._models = SelectSeq(@, LAMBDA r : r # el.ref)]
    ELSE this

\* remove(el), el a model instance or an index
remove(this, el) ==
    LET idx == IF el.kind = "index" THEN el.index ELSE indexOf(this, el)
    IN IF idx >= 0 THEN [this EXCEPT !._models = splice(@, idx, 1)] ELSE this

\* contains(predicate): whether a position of getModels() holds the very
\* instance (an instance the collection does not hold is at none)
contains(this, el) ==
    el.kind = "ref" /\ \E index \in DOMAIN getModels(this).items :
                           getModels(this).items[index] = el.ref

\* a getDirtyModels that filters the backing array in place and returns it
getDirtyModelsInPlace(this) ==
    [array |-> this.backing,
     items |-> SelectSeq(this._models, LAMBDA r : isDirty(this.heap[r]))]

\* getDirtyModels(): a new array of the models for which isDirty() holds
getDirtyModels(this) ==
    [array |-> this.backing + 1,
     items |-> SelectSeq(this._models, LAMBDA r : isDirty(this.heap[r]))]

\* res.forEach((item) => { this.push(item); this.last()?.setPhantom(false) })
RECURSIVE insertAll(_, _)
insertAll(this, res) ==
    IF res = <<>> THEN this
    ELSE LET t1 == push(this, Head(res))
             l == last(t1)
             t2 == IF l # null
                   THEN [t1 EXCEPT !.heap[l] = setPhantom(@, FALSE)]
                   ELSE t1
         IN insertAll(t2, Tail(res))

\* a query that appends whatever the options say
queryResumeAppends(this, settled, append) ==
    IF ~settled.ok
    THEN [this |-> this, rejected |-> TRUE, reason |-> settled.reason]
    ELSE [this |-> insertAll(this, settled.res.data), rejected |-> FALSE, reason |-> ""]

\* a query that clears the collection before it looks at the outcome
queryResumeClearsFirst(this, settled, append) ==
    LET t1 == IF append # Bool(TRUE) THEN clear(this) ELSE this
    IN IF ~settled.ok
       THEN [this |-> t1, rejected |-> TRUE, reason |-> settled.reason]
       ELSE [this |-> insertAll(t1, settled.res.data), rejected |-> FALSE, reason |-> ""]

\* a query that leaves the clearing to the last of the calls in flight
queryResumeDefersClear(this, settled, append) ==
    IF ~settled.ok
    THEN [this |-> this, rejected |-> TRUE, reason |-> settled.reason]
    ELSE LET t1 == IF append # Bool(TRUE) /\ BagCardinality(pending) <= 1
                   THEN clear(this)
                   ELSE this
         IN [this |-> insertAll(t1, settled.res.data), rejected |-> FALSE, reason |-> ""]

\* query(), from the settling of the awaited adapter query on; append is the
\* value of opts?.append
queryResume(this, settled, append) ==
    IF ~settled.ok
    THEN [this |-> this, rejected |-> TRUE, reason |-> settled.reason]
    ELSE LET t1 == IF append # Bool(TRUE) THEN clear(this) ELSE this
         IN [this |-> insertAll(t1, settled.res.data), rejected |-> FALSE, reason |-> ""]

\* the references of seq, each once, in the order of their first occurrence
RECURSIVE distinctRefs(_)
distinctRefs(seq) ==
    IF seq = <<>> THEN <<>>
    ELSE LET init == distinctRefs(SubSeq(seq, 1, Len(seq) - 1))
             r == seq[Len(seq)]
         IN IF \E i \in DOMAIN init : init[i] = r THEN init ELSE Append(init, r)

\* the same collection with the instances nothing refers to dropped and the
\* references renamed 1, 2, ... in the order of their first occurrence
compact(this) ==
    LET d == distinctRefs(this._models)
        name(r) == CHOOSE i \in DOMAIN d : d[i] = r
    IN [this EXCEPT !._models = [i \in DOMAIN this._models |-> name(this._models[i])],
                    !.heap = [i \in DOMAIN d |-> this.heap[d[i]]]]

\* the instances of the collection, in order
elements(this) == [i \in DOMAIN this._models |-> this.heap[this._models[i]]]

(* ------------------------------------------------------------------ *)
(* State                                                               *)
(*   model      the instance: its own data properties (props) and its  *)
(*              internal fields                                        *)
(*   pending    the adapter calls in flight, a bag of                  *)
(*              [op, method, wasDestroyed, append]                     *)
(*   ev         the step just taken: the operation and its phase, the  *)
(*              adapter invocations the step made, the pending call it *)
(*              belongs to, how the adapter promise settled, the data  *)
(*              it carried (a written patch or the adapter's result),  *)
(*              the property names the step captured into the dirty    *)
(*              snapshot, and the reason the caller's promise was      *)
(*              rejected with                                          *)
(*   committed  the data properties as they were at the last commit    *)
(*   written    per property, the raw value of the last external write *)
(*              that no rollback has undone                            *)
(*   coll       the collection: its backing sequence _models of        *)
(*              references, the instances behind them and its          *)
(*              permanent parameters                                   *)
(*   persisted  whether the adapter holds the instance: a fetch, create *)
(*              or update for it has succeeded and no delete has since  *)
(* ------------------------------------------------------------------ *)

NoCall == [op |-> "", method |-> "", wasDestroyed |-> FALSE, append |-> Undefined]
NotSettled == [settled |-> FALSE, ok |-> FALSE, reason |-> ""]
Settled(s) == [settled |-> TRUE, ok |-> s.ok, reason |-> s.reason]

\* a synchronous step that carried `data` and turned `before` into `after`,
\* the instance as the method left it (still unwinding when it threw)
SyncEvent(op, data, before, after) ==
    [op |-> op, phase |-> IF after.thrown # "" THEN "thrown" ELSE "done",
     invoked |-> <<>>, call |-> NoCall,
     settled |-> NotSettled, data |-> data,
     captured |-> DOMAIN after._dirtyProps \ DOMAIN before._dirtyProps,
     reason |-> after.thrown, given |-> EmptyObject]

\* the step of an asynchronous method up to its await, called with the
\* per-call parameters `given`
CallEvent(op, phase, invoked, call, given) ==
    [op |-> op, phase |-> phase, invoked |-> invoked, call |-> call,
     settled |-> NotSettled, data |-> NullResult, captured |-> {}, reason |-> "",
     given |-> given]

\* the step of an asynchronous method from its await on
ResumeEvent(call, s, out, before) ==
    [op |-> call.op, phase |-> IF out.rejected THEN "thrown" ELSE "returned",
     invoked |-> <<>>, call |-> call, settled |-> Settled(s), data |-> s.res,
     captured |-> DOMAIN out.this._dirtyProps \ DOMAIN before._dirtyProps,
     reason |-> out.reason, given |-> EmptyObject]

\* one call of an adapter method: its first argument (the instance it is
\* called for) and its second (the parameter mapping)
Invocation(method, instance, params) ==
    [method |-> method, instance |-> instance, params |-> params]

Call(op, method) ==
    [op |-> op, method |-> method, wasDestroyed |-> isDestroyed(model), append |-> Undefined]

\* the declared defaults as one object
defaultsObject ==
    [k \in {defaults[i][1] : i \in DOMAIN defaults} |->
        defaults[CHOOSE i \in DOMAIN defaults : defaults[i][1] = k][2]]

\* the `written` history after a method that carried `data` and ended as
\* `after`: what a method that threw midway wrote is not recorded
Wrote(data, after) ==
    IF after.thrown = "" THEN data @@ written
    ELSE [k \in DOMAIN written \ DOMAIN data |-> written[k]]

\* new Collection(): no models, no permanent parameters; heap holds the
\* instances the collection has built, by reference
emptyCollection ==
    [_models |-> <<>>, backing |-> 1, heap |-> <<>>, _queryParams |-> EmptyObject]

Init ==
    /\ model = construct
    /\ pending = EmptyBag
    /\ ev = [SyncEvent("new", NullResult, construct, construct) EXCEPT
                !.captured = DOMAIN construct._dirtyProps]
    /\ committed = EmptyObject
    /\ written = defaultsObject
    /\ coll = emptyCollection
    /\ persisted = FALSE

(* ---- synchronous operations ---- *)

\* model[prop] = val
Assign(prop, val) ==
    \E after \in {ProxySet(model, prop, val)} :
        /\ model' = Caught(after)
        /\ ev' = SyncEvent("assign", Patch(prop :> val), model, after)
        /\ written' = Wrote(prop :> val, after)
        /\ UNCHANGED <<pending, committed, coll, persisted>>

\* model.set(prop, val)
SetKey(prop, val) ==
    \E after \in {setKey(model, prop, val)} :
        /\ model' = Caught(after)
        /\ ev' = SyncEvent("setKey", Patch(prop :> val), model, after)
        /\ written' = Wrote(prop :> val, after)
        /\ UNCHANGED <<pending, committed, coll, persisted>>

\* model.set(data)
Set(data) ==
    \E after \in {set(model, data)} :
        /\ model' = Caught(after)
        /\ ev' = SyncEvent("set", Patch(data), model, after)
        /\ written' = Wrote(data, after)
        /\ UNCHANGED <<pending, committed, coll, persisted>>

\* model.commit()
Commit ==
    \E after \in {commit(model, NullResult)} :
        /\ model' = Caught(after)
        /\ ev' = SyncEvent("commit", NullResult, model, after)
        /\ committed' = after.props
        /\ UNCHANGED <<pending, written, coll, persisted>>

\* model.commit(data)
CommitData(data) ==
    \E after \in {commit(model, Patch(data))} :
        /\ model' = Caught(after)
        /\ ev' = SyncEvent("commit", Patch(data), model, after)
        /\ committed' = IF after.thrown = "" THEN after.props ELSE committed
        /\ written' = Wrote(data, after)
        /\ UNCHANGED <<pending, coll, persisted>>

\* model.rollback()
Rollback ==
    \E after \in {rollback(model)} :
        /\ model' = Caught(after)
        /\ ev' = SyncEvent("rollback", NullResult, model, after)
        /\ written' = [k \in DOMAIN written \ DOMAIN model._dirtyProps |-> written[k]]
        /\ UNCHANGED <<pending, committed, coll, persisted>>

(* ---- asynchronous operations: the part up to the await ---- *)

\* an asynchronous method reaches its await: it has invoked the adapter
\* method of `call` and the call is in flight, `limit` calls at most
Started(call, limit, callParams) ==
    /\ BagCardinality(pending) < limit
    /\ pending' = pending (+) SetToBag({call})
    /\ ev' = CallEvent(call.op, "called",
                       <<Invocation(call.method, "model", mergeParams(model, callParams))>>,
                       call, callParams)
    /\ UNCHANGED <<model, committed, written, coll, persisted>>

\* destroy() of a phantom: it returns without a call
ReturnedAtOnce(callParams) ==
    /\ pending' = pending
    /\ ev' = CallEvent("destroy", "returned", <<>>, NoCall, callParams)
    /\ UNCHANGED <<model, committed, written, coll, persisted>>

\* model.load(callParams)
Load(callParams) == Started(Call("load", "fetch"), MaxPending, callParams)

\* model.save(callParams)
Save(callParams) == Started(Call("save", saveMethod(model)), MaxPending, callParams)

\* destroy(), up to the await or to its early return
DestroyAs(call, limit, callParams) ==
    IF destroyCalls(model)
    THEN Started(call, limit, callParams)
    ELSE ReturnedAtOnce(callParams)

\* model.destroy(callParams)
Destroy(callParams) == DestroyAs(Call("destroy", "delete"), MaxPending, callParams)

(* ---- asynchronous operations: the part after the await ---- *)

\* the bookkeeping of a step in which the pending call c resumes with the
\* settlement s and ends as `out`
Resume(c, s, out) ==
    /\ pending' = pending (-) SetToBag({c})
    /\ model' = out.this
    /\ ev' = ResumeEvent(c, s, out, model)
    /\ committed' = IF out.committed THEN out.this.props ELSE committed
    /\ written' = IF out.applied THEN s.res.data @@ written
                  ELSE IF s.ok /\ out.rejected
                  THEN [k \in DOMAIN written \ DOMAIN s.res.data |-> written[k]]
                  ELSE written
    /\ coll' = coll
    /\ persisted' = IF s.ok THEN c.method \in {"fetch", "create", "update"} ELSE persisted

LoadSettle(c, s) ==
    /\ BagIn(c, pending) /\ c.op = "load"
    /\ \E out \in {loadResume(model, s)} : Resume(c, s, out)

SaveSettle(c, s) ==
    /\ BagIn(c, pending) /\ c.op = "save"
    /\ \E out \in {saveResume(model, s)} : Resume(c, s, out)

DestroySettle(c, s) ==
    /\ BagIn(c, pending) /\ c.op = "destroy"
    /\ \E out \in {destroyResume(model, s)} : Resume(c, s, out)

Calls == BagToSet(pending)

Next ==
    \/ \E k \in Declared : \E v \in RawOf(k) : Assign(k, v)
    \/ \E k \in Declared : \E v \in RawOf(k) : SetKey(k, v)
    \/ \E p \in Patches : Set(p)
    \/ Commit
    \/ \E p \in Patches : CommitData(p)
    \/ Rollback
    \/ \E q \in CallParams : Load(q)
    \/ \E q \in CallParams : Save(q)
    \/ \E q \in CallParams : Destroy(q)
    \/ \E c \in Calls : \E s \in Settlements : LoadSettle(c, s)
    \/ \E c \in Calls : \E s \in Settlements : SaveSettle(c, s)
    \/ \E c \in Calls : \E s \in Settlements : DestroySettle(c, s)

Spec == Init /\ [][Next]_vars

(* ------------------------------------------------------------------ *)
(* Writes that name a derived property: by assignment, by set(key, value), *)
(* by a patch, and by the patch of an adapter that echoes toJSON()          *)
(* ------------------------------------------------------------------ *)

NextDerived ==
    \/ \E k \in {"alwaysPlusOne"} \cup derived : \E v \in RawOf(k) : Assign(k, v)
    \/ \E k \in derived : \E v \in RawOf(k) : SetKey(k, v)
    \/ \E p \in EchoPatches : Set(p)
    \/ Commit
    \/ \E p \in EchoPatches : CommitData(p)
    \/ Rollback
    \/ Save(EmptyObject)
    \/ \E c \in Calls : \E s \in EchoSettlements : SaveSettle(c, s)

SpecDerived == Init /\ [][NextDerived]_vars

(* ------------------------------------------------------------------ *)
(* Reading the instance back: getDirtyProps(), getProps() and toJSON(),    *)
(* on a model whose declared fields and an ad hoc field x are written,     *)
(* committed and rolled back                                               *)
(* ------------------------------------------------------------------ *)

\* model.getDirtyProps()
GetDirtyProps ==
    \E r \in {getDirtyProps(model)} :
        /\ model' = r.this
        /\ ev' = SyncEvent("getDirtyProps", Patch(r.result), model, r.this)
        /\ UNCHANGED <<pending, committed, written, coll, persisted>>

\* model.getProps()
GetProps ==
    /\ ev' = SyncEvent("getProps", Patch(getProps(model)), model, model)
    /\ UNCHANGED <<model, pending, committed, written, coll, persisted>>

\* model.toJSON()
ToJSON ==
    /\ ev' = SyncEvent("toJSON", Patch(toJSON(model)), model, model)
    /\ UNCHANGED <<model, pending, committed, written, coll, persisted>>

NextProps ==
    \/ \E k \in DataKeys : \E v \in RawOf(k) : Assign(k, v)
    \/ \E p \in PatchesOver({"alwaysPlusOne", "x"}) : Set(p)
    \/ Commit
    \/ \E p \in PatchesOver({"alwaysPlusOne", "x"}) : CommitData(p)
    \/ Rollback
    \/ GetDirtyProps
    \/ GetProps
    \/ ToJSON

SpecProps == Init /\ [][NextProps]_vars

(* ------------------------------------------------------------------ *)
(* The collection: push and query, with an adapter whose query resolves to *)
(* any short list of plain data objects and model instances, or fails      *)
(* ------------------------------------------------------------------ *)

\* what callers push
PushItems ==
    {Data([name |-> Str("leer")]), Instance(construct),
     Instance(constructOf("OtherModel", <<>>))}

\* what the adapter's query result lists
QueryItems ==
    {Data([name |-> Str("foobar")]),
     Instance(commit(construct, Patch([alwaysPlusOne |-> Num(1)])))}

QueryResults == UNION {[1..n -> QueryItems] : n \in 0..MaxResults}

QuerySettlements ==
    {Fulfilled(Patch(r)) : r \in QueryResults} \cup {Rejected(e) : e \in Errors}

\* a step of the collection
CollEvent(op, phase, data) ==
    [op |-> op, phase |-> phase, invoked |-> <<>>, call |-> NoCall,
     settled |-> NotSettled, data |-> data, captured |-> {}, reason |-> "",
     given |-> EmptyObject]

QueryCall(append) ==
    [op |-> "query", method |-> "query", wasDestroyed |-> FALSE, append |-> append]

\* collection.push(el)
CPush(el) ==
    /\ Len(coll._models) < MaxModels
    /\ coll' = compact(push(coll, el))
    /\ ev' = CollEvent("push", "done", Patch(<<el>>))
    /\ UNCHANGED <<model, pending, committed, written, persisted>>

\* query() reaches its await: it has invoked the adapter's query and the
\* call is in flight, `limit` calls at most
CQueryAs(call, limit, callParams) ==
    /\ BagCardinality(pending) < limit
    /\ pending' = pending (+) SetToBag({call})
    /\ ev' = CallEvent("query", "called",
                       <<Invocation("query", "collection", mergeParams(coll, callParams))>>,
                       call, callParams)
    /\ UNCHANGED <<model, committed, written, coll, persisted>>

\* collection.query(callParams, opts), up to the await
CQuery(callParams, append) == CQueryAs(QueryCall(append), MaxPending, callParams)

\* collection.query(), from the await on; the step records the number of
\* models it found in the collection
CQuerySettle(c, s) ==
    \E out \in {queryResume(coll, s, c.append)} :
        /\ BagIn(c, pending) /\ c.op = "query"
        /\ Len(out.this._models) <= MaxModels
        /\ pending' = pending (-) SetToBag({c})
        /\ coll' = compact(out.this)
        /\ ev' = [CollEvent("query", IF out.rejected THEN "thrown" ELSE "returned", s.res)
                     EXCEPT !.call = c, !.settled = Settled(s), !.reason = out.reason,
                            !.given = [length |-> length(coll)]]
        /\ UNCHANGED <<model, committed, written, persisted>>

\* collection.remove(el); the step records the element given and the number
\* of positions at which the collection held it
CRemove(el) ==
    /\ coll' = compact(remove(coll, el))
    /\ ev' = [CollEvent("remove", "done",
                        Patch(<<el, [held |-> Cardinality({i \in DOMAIN coll._models :
                                                             contains(coll, el)
                                                             /\ coll._models[i] = el.ref})]>>))
                 EXCEPT !.given = el]
    /\ UNCHANGED <<model, pending, committed, written, persisted>>

\* collection.clear()
CClear ==
    /\ coll' = compact(clear(coll))
    /\ ev' = [CollEvent("clear", "done", NullResult) EXCEPT
                 !.given = [length |-> length(coll)]]
    /\ UNCHANGED <<model, pending, committed, written, persisted>>

\* the instances of the collection a caller holds a reference to
Held == {Contained(r) : r \in DOMAIN coll.heap}

\* the positions callers name: every valid one, and some on either side
Positions == {Index(i) : i \in -2..(MaxModels + 1)}

NextColl ==
    \/ \E el \in PushItems : CPush(el)
    \/ \E el \in Held \cup {Index(0)} : CRemove(el)
    \/ CClear
    \/ \E q \in CallParams : \E a \in AppendOpts : CQuery(q, a)
    \/ \E c \in Calls : \E s \in QuerySettlements : CQuerySettle(c, s)

SpecColl == Init /\ [][NextColl]_vars

(* ------------------------------------------------------------------ *)
(* The collection as a list: push of items and of arrays, remove, clear   *)
(* and the reading methods                                                *)
(* ------------------------------------------------------------------ *)

\* what callers push: plain data, a new model (dirty from its field
\* initialisers), a committed one, or a model the collection holds already
ListItems ==
    {Data([alwaysPlusOne |-> Num(1)]), Instance(construct),
     Instance(commit(construct, NullResult))}

\* the arrays callers push
ListArrays(items) == UNION {[1..n -> items] : n \in {0, 2}}

\* collection.push(els), els an array
CPushAll(els) ==
    /\ Len(coll._models) + Len(els) <= MaxModels
    /\ coll' = compact(pushAll(coll, els))
    /\ ev' = CollEvent("push", "done", Patch(els))
    /\ UNCHANGED <<model, pending, committed, written, persisted>>

\* a reading method that returned `result`
Reading(op, arg, result) ==
    /\ ev' = [CollEvent(op, "done", Patch(<<result>>)) EXCEPT !.given = arg]
    /\ UNCHANGED <<model, pending, committed, written, coll, persisted>>

\* collection.first(), collection.last(), collection.at(index)
CFirst == Reading("first", EmptyObject, [ref |-> first(coll)])
CLast == Reading("last", EmptyObject, [ref |-> last(coll)])
CAt(i) == Reading("at", i, [ref |-> at(coll, i.index)])

\* collection.contains(el)
CContains(el) == Reading("contains", el, [found |-> contains(coll, el)])

\* collection.getDirtyModels()
CGetDirtyModels == Reading("getDirtyModels", EmptyObject, getDirtyModels(coll))

NextList ==
    \/ \E el \in ListItems \cup Held : CPush(el)
    \/ \E els \in ListArrays(ListItems \cup Held) : CPushAll(els)
    \/ \E el \in Held \cup Positions \cup {Instance(construct)} : CRemove(el)
    \/ CClear
    \/ CFirst
    \/ CLast
    \/ \E i \in Positions : CAt(i)
    \/ CGetDirtyModels
    \/ \E el \in Held \cup {Instance(construct)} : CContains(el)

SpecList == Init /\ [][NextList]_vars

(* ------------------------------------------------------------------ *)
(* Permanent query parameters of a model and of a collection, and the     *)
(* parameters their adapter calls are made with                           *)
(* ------------------------------------------------------------------ *)

\* a step that was called with the arguments `given` and left the instance
\* as `after`
ParamEvent(op, given, before, after) ==
    [SyncEvent(op, NullResult, before, after) EXCEPT !.given = given]

\* model.setQueryParam(key, value)
SetQueryParam(key, value) ==
    /\ model' = setQueryParam(model, key, value)
    /\ ev' = ParamEvent("setQueryParam", key :> value, model, model')
    /\ UNCHANGED <<pending, committed, written, coll, persisted>>

\* model.setQueryParams(params)
SetQueryParams(params) ==
    /\ model' = setQueryParams(model, params)
    /\ ev' = ParamEvent("setQueryParams", params, model, model')
    /\ UNCHANGED <<pending, committed, written, coll, persisted>>

\* model.removeQueryParam(key)
RemoveQueryParam(key) ==
    /\ model' = removeQueryParam(model, key)
    /\ ev' = ParamEvent("removeQueryParam", key :> "", model, model')
    /\ UNCHANGED <<pending, committed, written, coll, persisted>>

\* model.queryParams[key] = value
ChangeReturned(key, value) ==
    /\ model' = changeReturned(model, key, value).this
    /\ ev' = ParamEvent("queryParams", key :> value, model, model')
    /\ UNCHANGED <<pending, committed, written, coll, persisted>>

\* collection.setQueryParam(key, value)
CSetQueryParam(key, value) ==
    /\ coll' = setQueryParam(coll, key, value)
    /\ ev' = [CollEvent("collection.setQueryParam", "done", NullResult)
                 EXCEPT !.given = key :> value]
    /\ UNCHANGED <<model, pending, committed, written, persisted>>

\* collection.setQueryParams(params)
CSetQueryParams(params) ==
    /\ coll' = setQueryParams(coll, params)
    /\ ev' = [CollEvent("collection.setQueryParams", "done", NullResult)
                 EXCEPT !.given = params]
    /\ UNCHANGED <<model, pending, committed, written, persisted>>

\* collection.removeQueryParam(key)
CRemoveQueryParam(key) ==
    /\ coll' = removeQueryParam(coll, key)
    /\ ev' = [CollEvent("collection.removeQueryParam", "done", NullResult)
                 EXCEPT !.given = key :> ""]
    /\ UNCHANGED <<model, pending, committed, written, persisted>>

\* collection.queryParams[key] = value
CChangeReturned(key, value) ==
    /\ coll' = changeReturned(coll, key, value).this
    /\ ev' = [CollEvent("collection.queryParams", "done", NullResult)
                 EXCEPT !.given = key :> value]
    /\ UNCHANGED <<model, pending, committed, written, persisted>>

\* a query adapter that answers with an empty list, or fails
PlainQuerySettlements == {Fulfilled(Patch(<<>>)), Rejected("fail!")}

NextParams ==
    \/ \E k \in ParamKeys : \E v \in ParamValues : SetQueryParam(k, v)
    \/ \E p \in ParamSets : SetQueryParams(p)
    \/ \E k \in ParamKeys : RemoveQueryParam(k)
    \/ \E k \in ParamKeys : \E v \in ParamValues : ChangeReturned(k, v)
    \/ \E k \in ParamKeys : \E v \in ParamValues : CSetQueryParam(k, v)
    \/ \E p \in ParamSets : CSetQueryParams(p)
    \/ \E k \in ParamKeys : CRemoveQueryParam(k)
    \/ \E k \in ParamKeys : \E v \in ParamValues : CChangeReturned(k, v)
    \/ \E q \in CallParams : Load(q)
    \/ \E q \in CallParams : Save(q)
    \/ \E q \in CallParams : Destroy(q)
    \/ \E q \in CallParams : CQuery(q, Undefined)
    \/ \E c \in Calls : \E s \in PlainSettlements : LoadSettle(c, s)
    \/ \E c \in Calls : \E s \in PlainSettlements : SaveSettle(c, s)
    \/ \E c \in Calls : \E s \in PlainSettlements : DestroySettle(c, s)
    \/ \E c \in Calls : \E s \in PlainQuerySettlements : CQuerySettle(c, s)

SpecParams == Init /\ [][NextParams]_vars

(* ------------------------------------------------------------------ *)
(* Writes seen from inside: instances of subtypes with and without        *)
(* declared fields, a mutation function that reads its context, patches   *)
(* that name internal fields, and the lifecycle flags                     *)
(* ------------------------------------------------------------------ *)

\* the subtypes instances are built of: one that declares no field, and
\* TestModel
Subtypes == {[cls |-> "EmptyModel", fields |-> <<>>], [cls |-> "TestModel", fields |-> defaults]}

\* the defaults a subtype declares, as one object
declaredObject(fields) ==
    [k \in {fields[i][1] : i \in DOMAIN fields} |->
        fields[CHOOSE i \in DOMAIN fields : fields[i][1] = k][2]]

\* the step that built an instance of the subtype
NewEvent(subtype, after) ==
    [SyncEvent("new", NullResult, after, after) EXCEPT
        !.captured = DOMAIN after._dirtyProps,
        !.given = [declared |-> DOMAIN declaredObject(subtype.fields)]]

InitWrite ==
    \E subtype \in Subtypes :
        /\ model = constructOf(subtype.cls, subtype.fields)
        /\ pending = EmptyBag
        /\ ev = NewEvent(subtype, model)
        /\ committed = EmptyObject
        /\ written = declaredObject(subtype.fields)
        /\ coll = emptyCollection
        /\ persisted = FALSE

\* model = new Subtype(): the instance under observation is a new one
New(subtype) ==
    \E after \in {constructOf(subtype.cls, subtype.fields)} :
        /\ pending = EmptyBag
        /\ model' = after
        /\ ev' = NewEvent(subtype, after)
        /\ committed' = EmptyObject
        /\ written' = declaredObject(subtype.fields)
        /\ persisted' = FALSE
        /\ UNCHANGED <<pending, coll>>

\* model.setPhantom(isPhantom)
SetPhantom(b) ==
    \E after \in {setPhantom(model, b)} :
        /\ model' = Caught(after)
        /\ ev' = SyncEvent("setPhantom", Patch("_isPhantom" :> b), model, after)
        /\ UNCHANGED <<pending, committed, written, coll, persisted>>

\* plain data objects that name a lifecycle flag, alone or beside a data
\* property
FlagPatches ==
    {[_isPhantom |-> FALSE], [_isDestroyed |-> TRUE],
     [_isPhantom |-> TRUE, seen |-> Num(0)]}

NextWrite ==
    \/ \E subtype \in Subtypes : New(subtype)
    \/ \E v \in RawOf("seen") : Assign("seen", v)
    \/ \E data \in FlagPatches \cup {[seen |-> Num(1)]} : Set(data)
    \/ Commit
    \/ Rollback
    \/ \E b \in BOOLEAN : SetPhantom(b)
    \/ Destroy(EmptyObject)
    \/ \E c \in Calls : \E s \in PlainSettlements : DestroySettle(c, s)

SpecWrite == InitWrite /\ [][NextWrite]_vars

(* ------------------------------------------------------------------ *)
(* The lifecycle flags under load, save and destroy, one call at a time,  *)
(* with writes and patches that may name a flag; setPhantom is not used   *)
(* ------------------------------------------------------------------ *)

NextFlags ==
    \/ \E v \in RawOf("_isDestroyed") : Assign("_isDestroyed", v)
    \/ \E data \in {[_isPhantom |-> FALSE], [name |-> Str("foobar")]} : Set(data)
    \/ Commit
    \/ Rollback
    \/ Load(EmptyObject)
    \/ Save(EmptyObject)
    \/ Destroy(EmptyObject)
    \/ \E c \in Calls : \E s \in PlainSettlements : LoadSettle(c, s)
    \/ \E c \in Calls : \E s \in PlainSettlements : SaveSettle(c, s)
    \/ \E c \in Calls : \E s \in PlainSettlements : DestroySettle(c, s)

SpecFlags == Init /\ [][NextFlags]_vars

(* ------------------------------------------------------------------ *)
(* Overlapping calls on one instance: load, save and destroy started      *)
(* while earlier calls are in flight, a property written meanwhile, and   *)
(* an adapter whose delete answers with a patch                           *)
(* ------------------------------------------------------------------ *)

\* the call, with the properties the instance had when the adapter was
\* invoked
Watched(call) ==
    [op |-> call.op, method |-> call.method, wasDestroyed |-> call.wasDestroyed,
     append |-> call.append, sent |-> model.props]

\* what the adapter's delete answers with
DeletePatch == [alwaysPlusOne |-> Num(1)]

NextOverlap ==
    \/ Assign("name", Str("foobar"))
    \/ Started(Watched(Call("load", "fetch")), MaxOverlap, EmptyObject)
    \/ Started(Watched(Call("save", saveMethod(model))), MaxOverlap, EmptyObject)
    \/ DestroyAs(Watched(Call("destroy", "delete")), MaxOverlap, EmptyObject)
    \/ \E c \in Calls : \E s \in PlainSettlements : LoadSettle(c, s)
    \/ \E c \in Calls : \E s \in PlainSettlements : SaveSettle(c, s)
    \/ \E c \in Calls : \E s \in {Fulfilled(Patch(DeletePatch)), Rejected("fail!")} :
           DestroySettle(c, s)

SpecOverlap == Init /\ [][NextOverlap]_vars

(* ------------------------------------------------------------------ *)
(* Overlapping queries on one collection: nothing but query() changes the *)
(* contents                                                               *)
(* ------------------------------------------------------------------ *)

\* the query call, with the number of models the collection held when the
\* adapter was invoked
WatchedQuery(append) ==
    [op |-> "query", method |-> "query", wasDestroyed |-> FALSE, append |-> append,
     held |-> length(coll)]

NextQueries ==
    \/ \E a \in {Undefined, Bool(FALSE)} : CQueryAs(WatchedQuery(a), MaxOverlap, EmptyObject)
    \/ \E c \in Calls : \E s \in QuerySettlements \ {Rejected("timeout")} :
           CQuerySettle(c, s)

SpecQueries == Init /\ [][NextQueries]_vars

(* ------------------------------------------------------------------ *)
(* Patches the library applies: adapter results of load, save and         *)
(* destroy, the argument of commit, and plain data given to push          *)
(* ------------------------------------------------------------------ *)

\* patches over the property that has a mutation function
MutatedPatches == PatchesOver({"alwaysPlusOne"})

\* an adapter that answers with such a patch, with nothing, or fails
PatchSettlements ==
    {Fulfilled(Patch(p)) : p \in MutatedPatches} \cup PlainSettlements

NextPatch ==
    \/ \E data \in MutatedPatches : CommitData(data)
    \/ Load(EmptyObject)
    \/ Save(EmptyObject)
    \/ Destroy(EmptyObject)
    \/ \E c \in Calls : \E s \in PatchSettlements : LoadSettle(c, s)
    \/ \E c \in Calls : \E s \in PatchSettlements : SaveSettle(c, s)
    \/ \E c \in Calls : \E s \in PatchSettlements : DestroySettle(c, s)
    \/ CPush(Data([alwaysPlusOne |-> Num(1)]))

SpecPatch == Init /\ [][NextPatch]_vars

(* ------------------------------------------------------------------ *)
(* Properties                                                          *)
(* ------------------------------------------------------------------ *)

\* the value a write of the raw value val to prop has to store
Stored(prop, val) == IF prop \in mutations THEN mutFn(prop, val) ELSE val

\* every key of the patch is stored on the instance, mutated where registered
Applied(this, data) == \A k \in DOMAIN data : get(this, k) = Stored(k, data[k])

IsCallStep(e) == e.op \in {"load", "save", "destroy"} /\ ~e.settled.settled
IsSettleStep(e) == e.op \in {"load", "save", "destroy"} /\ e.settled.settled
IsWrite(e) == e.op \in {"assign", "setKey", "set"}

\* C1: save() on a phantom model invokes the adapter's create exactly once
\* and never update, on a non-phantom model update exactly once and never
\* create (the step after the await invokes nothing); when the adapter call
\* succeeds, the model is afterwards neither dirty nor phantom.
C1_SaveCreatesOrUpdates ==
    /\ (ev.op = "save" /\ ev.phase = "called") =>
          /\ Len(ev.invoked) = 1
          /\ ev.invoked[1].method = (IF isPhantom(model) THEN "create" ELSE "update")
    /\ (ev.op = "save" /\ ev.phase \in {"returned", "thrown"}) => ev.invoked = <<>>
    /\ (ev.op = "save" /\ ev.phase = "returned") => ~isDirty(model) /\ ~isPhantom(model)

\* a save that took the update path has succeeded
C1_Witness ==
    /\ ev.op = "save" /\ ev.phase = "returned" /\ ev.call.method = "update"
    /\ ~isDirty(model) /\ ~isPhantom(model)

\* C2: destroy() on a phantom model invokes nothing, returns at once and
\* leaves the whole instance (flags, dirty snapshot, properties) unchanged;
\* on a non-phantom model it invokes delete exactly once, and when that
\* succeeds the model ends phantom and destroyed.
C2_Destroy ==
    [][ev'.op = "destroy" =>
          /\ (IsCallStep(ev') /\ isPhantom(model)) =>
                /\ ev'.invoked = <<>> /\ ev'.phase = "returned"
                /\ pending' = pending /\ model' = model
          /\ (IsCallStep(ev') /\ ~isPhantom(model)) =>
                /\ Len(ev'.invoked) = 1 /\ ev'.invoked[1].method = "delete"
                /\ ev'.phase = "called"
          /\ IsSettleStep(ev') =>
                /\ ev'.invoked = <<>>
                /\ ev'.settled.ok => isPhantom(model') /\ isDestroyed(model')]_vars

\* a destroy of a persisted model has succeeded
C2_Witness ==
    /\ ev.op = "destroy" /\ ev.phase = "returned" /\ ev.call.method = "delete"
    /\ isPhantom(model) /\ isDestroyed(model)

\* C3: a save() called on a destroyed model (a destroy succeeded and nothing
\* has persisted the model since) invokes create, not update, and when it
\* succeeds the model is neither phantom nor destroyed.
C3_SaveAfterDestroy ==
    /\ (ev.op = "save" /\ ev.phase = "called" /\ isDestroyed(model)) =>
          Len(ev.invoked) = 1 /\ ev.invoked[1].method = "create"
    /\ (ev.op = "save" /\ ev.phase = "returned" /\ ev.call.wasDestroyed) =>
          ~isPhantom(model) /\ ~isDestroyed(model)

\* a save called on a destroyed model has succeeded by the create path
C3_Witness ==
    /\ ev.op = "save" /\ ev.phase = "returned"
    /\ ev.call.wasDestroyed /\ ev.call.method = "create"
    /\ ~isPhantom(model) /\ ~isDestroyed(model)

\* C4: when the adapter promise of load(), save() or destroy() is rejected,
\* the caller's promise is rejected with the same reason and the step changes
\* nothing of the instance and commits nothing; the step up to the await
\* changes nothing either, so flags and dirty snapshot are those of before
\* the call.
C4_FailureChangesNothing ==
    [][/\ (IsSettleStep(ev') /\ ~ev'.settled.ok) =>
             /\ ev'.phase = "thrown" /\ ev'.reason = ev'.settled.reason
             /\ model' = model /\ committed' = committed /\ written' = written
       /\ (IsSettleStep(ev') /\ ev'.phase = "thrown") => ~ev'.settled.ok
       /\ IsCallStep(ev') => model' = model]_vars

\* a save of a dirty model has failed and the model is still dirty
C4_Witness ==
    /\ ev.op = "save" /\ ev.phase = "thrown" /\ ev.reason = "timeout"
    /\ isDirty(model) /\ isPhantom(model)

\* C5: when load() succeeds, the returned patch is stored on the model and
\* the model is clean, not phantom and not destroyed, whatever it was before.
C5_LoadSuccess ==
    (ev.op = "load" /\ ev.phase = "returned") =>
        /\ Applied(model, ev.data.data)
        /\ ~isDirty(model) /\ ~isPhantom(model) /\ ~isDestroyed(model)

\* a load called on a destroyed model has succeeded with a patch
C5_Witness ==
    /\ ev.op = "load" /\ ev.phase = "returned" /\ ev.call.wasDestroyed
    /\ "alwaysPlusOne" \in DOMAIN ev.data.data
    /\ ~isPhantom(model) /\ ~isDestroyed(model)

\* C6, as stated: after a successful destroy() of a persisted model the
\* dirty snapshot is empty whether or not the adapter returned a patch.
C6_AsStated ==
    (ev.op = "destroy" /\ ev.phase = "returned" /\ ev.call.method = "delete") =>
        ~isDirty(model)

\* C6, amended: a successful destroy() of a persisted model applies the patch
\* and commits only when the adapter returned one: then the patch is stored
\* and the dirty snapshot is empty; when the adapter returned none, the dirty
\* snapshot and the properties are left as they were.
C6_DestroyCommitsOnPatch ==
    [][(ev'.op = "destroy" /\ IsSettleStep(ev') /\ ev'.settled.ok) =>
          IF ev'.data.null
          THEN /\ model'._dirtyProps = model._dirtyProps
               /\ model'.props = model.props
               /\ committed' = committed
          ELSE /\ Applied(model', ev'.data.data)
               /\ ~isDirty(model')]_vars

\* a destroy has succeeded without a patch and the model is still dirty
C6_Witness ==
    /\ ev.op = "destroy" /\ ev.phase = "returned" /\ ev.call.method = "delete"
    /\ ev.data.null /\ isDirty(model) /\ isDestroyed(model)

\* C7: a write captures the pre-write stored value of each written property
\* that has no dirty-snapshot entry, and leaves every existing entry as it
\* is, whatever the write stores; it adds no entry for any other property.
C7_CaptureOnce ==
    [][IsWrite(ev') =>
          \A k \in DataKeys :
              IF k \in DOMAIN model._dirtyProps
              THEN /\ k \in DOMAIN model'._dirtyProps
                   /\ model'._dirtyProps[k] = model._dirtyProps[k]
              ELSE IF k \in DOMAIN ev'.data.data
              THEN /\ k \in DOMAIN model'._dirtyProps
                   /\ model'._dirtyProps[k] = get(model, k)
              ELSE k \notin DOMAIN model'._dirtyProps]_vars

\* a further write: the step wrote alwaysPlusOne, whose entry an earlier
\* write had captured, and the stored value now differs from the entry
C7_Witness ==
    /\ IsWrite(ev) /\ "alwaysPlusOne" \in DOMAIN ev.data.data
    /\ "alwaysPlusOne" \notin ev.captured
    /\ "alwaysPlusOne" \in DOMAIN model._dirtyProps
    /\ model._dirtyProps["alwaysPlusOne"] = Num(1)
    /\ get(model, "alwaysPlusOne") = Num(2)

\* C8: rollback() sets every property named in the dirty snapshot to the
\* stored value it had at the last commit (not mutated again), leaves the
\* other properties alone and leaves the model clean.
C8_Rollback ==
    [][ev'.op = "rollback" =>
          /\ \A k \in DOMAIN model._dirtyProps : get(model', k) = Read(committed, k)
          /\ \A k \in DataKeys \ DOMAIN model._dirtyProps : get(model', k) = get(model, k)
          /\ ~isDirty(model')
          /\ committed' = committed]_vars

\* a rollback has undone a write to the mutated property: the stored value
\* is the committed 2, not 3
C8_Witness ==
    /\ ev.op = "rollback" /\ ~isDirty(model)
    /\ "alwaysPlusOne" \notin DOMAIN written
    /\ Read(committed, "alwaysPlusOne") = Num(2)
    /\ get(model, "alwaysPlusOne") = Num(2)

\* C9: after commit() the model is clean; after commit(patch) every key of
\* the patch is stored (mutated where registered) and the model is clean.
C9_Commit ==
    ev.op = "commit" => ~isDirty(model) /\ Applied(model, ev.data.data)

\* a commit(patch) with the mutated property has run
C9_Witness ==
    /\ ev.op = "commit" /\ ~ev.data.null
    /\ "alwaysPlusOne" \in DOMAIN ev.data.data
    /\ get(model, "alwaysPlusOne") = Num(ev.data.data["alwaysPlusOne"].number + 1)
    /\ ~isDirty(model)

\* C10: a property whose last write (assignment, set(key, value), set(patch)
\* or a patch the library applied) carried the raw value v holds f(v) when a
\* mutation f is registered for it and v otherwise, until the next write or
\* rollback of it.
C10_MutationStored ==
    \A k \in DOMAIN written : get(model, k) = Stored(k, written[k])

\* a set(patch) has written raw 1 to the mutated property, which holds 2, and
\* a value to the unmutated one
C10_Witness ==
    /\ ev.op = "set" /\ DOMAIN ev.data.data = {"name", "alwaysPlusOne"}
    /\ written["alwaysPlusOne"] = Num(1) /\ get(model, "alwaysPlusOne") = Num(2)
    /\ written["name"] = Str("foobar") /\ get(model, "name") = Str("foobar")

\* the step is a set(x) that directly follows a commit(x) of the same patch
IsSetAfterCommitOfSame(e, e2) ==
    /\ e.op = "commit" /\ ~e.data.null /\ e.phase = "done"
    /\ e2.op = "set" /\ e2.data = e.data

\* C12, as stated: after commit(x), a set with the same keys and the same
\* values as x leaves isDirty() false.
C12_AsStated ==
    [][IsSetAfterCommitOfSame(ev, ev') => ~isDirty(model')]_vars

\* C12, amended: after commit(x), a set with the same keys and the same
\* values as x leaves every stored value as it was but captures every key of
\* x: the dirty snapshot then holds exactly the keys of x, each with the
\* unchanged stored value, so isDirty() is true unless x is empty.
C12_NoOpWriteMarksDirty ==
    [][IsSetAfterCommitOfSame(ev, ev') =>
          /\ model'.props = model.props
          /\ DOMAIN model'._dirtyProps = DOMAIN ev'.data.data
          /\ \A k \in DOMAIN ev'.data.data : model'._dirtyProps[k] = get(model', k)
          /\ isDirty(model') <=> ev'.data.data # EmptyObject]_vars

\* a set(x) of the mutated field and the ad hoc one has stored what the last
\* commit left and captured both
C12_Witness ==
    /\ ev.op = "set" /\ DOMAIN ev.data.data = {"alwaysPlusOne", "x"}
    /\ ev.captured = {"alwaysPlusOne", "x"}
    /\ committed = model.props
    /\ \A k \in DOMAIN ev.data.data : model._dirtyProps[k] = get(model, k)
    /\ isDirty(model)

\* C13: a write to a property that has no dirty-snapshot entry creates one
\* even when the value it stores equals the stored value: the entry holds
\* that value, the stored value is unchanged and isDirty() is true.
C13_CaptureNotValueBased ==
    [][(IsWrite(ev') /\ ev'.phase = "done") =>
          \A k \in DOMAIN ev'.data.data :
              (k \notin DOMAIN model._dirtyProps /\ Stored(k, ev'.data.data[k]) = get(model, k))
              => /\ k \in DOMAIN model'._dirtyProps
                 /\ model'._dirtyProps[k] = get(model, k)
                 /\ get(model', k) = get(model, k)
                 /\ isDirty(model')]_vars

\* the first write after a commit wrote raw 0 to the mutated property, which
\* held 1 and still does: the model is dirty with nothing changed
C13_Witness ==
    /\ IsWrite(ev) /\ DOMAIN ev.data.data = {"alwaysPlusOne"}
    /\ ev.data.data["alwaysPlusOne"] = Num(0)
    /\ ev.captured = {"alwaysPlusOne"} /\ DOMAIN model._dirtyProps = {"alwaysPlusOne"}
    /\ model._dirtyProps["alwaysPlusOne"] = Num(1)
    /\ committed = model.props
    /\ isDirty(model)

\* C15: immediately after construction, isPhantom() is true and
\* isDestroyed() is false.
C15_FreshModel ==
    ev.op = "new" => isPhantom(model) /\ ~isDestroyed(model)

\* the model as its constructor and its field initialisers left it
C15_Witness ==
    /\ ev.op = "new" /\ model = construct
    /\ isPhantom(model) /\ ~isDestroyed(model)
    /\ get(model, "name") = Str("leer")

\* C11, as stated: between operations, also after one that ended in an
\* error, the rollback-mode flag is false, and every completed external write
\* to a property with a registered mutation stores the mutated value.
C11_AsStated ==
    [][/\ model'._rollbackMode = FALSE
       /\ (IsWrite(ev') /\ ev'.phase = "done") =>
             \A k \in DOMAIN ev'.data.data \cap mutations :
                 get(model', k) = mutFn(k, ev'.data.data[k])]_vars

\* C14, as stated: no operation, an attempted write to a derived name
\* included, leaves a dirty-snapshot entry for a derived property, and a write
\* that names derived properties only leaves isDirty() as it was.
C14_AsStated ==
    [][/\ \A k \in derived : k \notin DOMAIN model'._dirtyProps
       /\ (IsWrite(ev') /\ DOMAIN ev'.data.data \subseteq derived) =>
             (isDirty(model') <=> isDirty(model))]_vars

\* C16: getDirtyProps() returns a mapping whose keys are exactly the keys of
\* the dirty snapshot and whose value for each key is the property's current
\* stored value, not the captured one; it is non-empty exactly when isDirty()
\* is true; the call leaves the instance, its snapshot included, unchanged.
C16_GetDirtyProps ==
    [][ev'.op = "getDirtyProps" =>
          /\ DOMAIN ev'.data.data = DOMAIN model._dirtyProps
          /\ \A k \in DOMAIN model._dirtyProps : ev'.data.data[k] = Read(model.props, k)
          /\ isDirty(model) <=> ev'.data.data # EmptyObject
          /\ model' = model]_vars

\* getDirtyProps() has returned the current 2 for the mutated property,
\* whose snapshot entry still holds the captured 1
C16_Witness ==
    /\ ev.op = "getDirtyProps"
    /\ "alwaysPlusOne" \in DOMAIN ev.data.data
    /\ ev.data.data["alwaysPlusOne"] = Num(2)
    /\ model._dirtyProps["alwaysPlusOne"] = Num(1)
    /\ isDirty(model)

\* C17: getProps() and toJSON() return a mapping that holds every stored data
\* field of the instance, declared or ad hoc, with its current value, every
\* derived property as its getter evaluates now, and no internal field.
C17_GetProps ==
    ev.op \in {"getProps", "toJSON"} =>
        /\ DOMAIN ev.data.data = DOMAIN model.props \cup derived
        /\ \A k \in DOMAIN model.props : ev.data.data[k] = model.props[k]
        /\ ev.data.data["nameLen"] =
              (IF IsStr(Read(model.props, "name"))
               THEN Num(stringLength(model.props["name"].string)) ELSE Num(0))
        /\ DOMAIN ev.data.data \cap internalModelProps = {}

\* toJSON() of a model with the ad hoc field x and the name foobar: the
\* result carries x and the name's length 6
C17_Witness ==
    /\ ev.op = "toJSON"
    /\ DOMAIN ev.data.data = {"name", "alwaysPlusOne", "x", "nameLen"}
    /\ ev.data.data["x"] = Str("y")
    /\ ev.data.data["name"] = Str("foobar")
    /\ ev.data.data["nameLen"] = Num(6)

\* the model m is what inserting the result item makes of it: built from the
\* item's data, or the item's instance itself, and in both cases not phantom
InsertedFrom(m, item) ==
    /\ ~isPhantom(m)
    /\ IF item.kind = "data"
       THEN Applied(m, item.data)
       ELSE m = [item.model EXCEPT !._isPhantom = FALSE]

\* C20: when query() succeeds without append being exactly true, the
\* collection afterwards holds one model per result item, in result order,
\* and nothing else; with append true, the previous models keep their
\* positions and the models of the result follow them in result order. Every
\* model the query inserted is not phantom.
C20_QueryReplacesOrAppends ==
    [][(ev'.op = "query" /\ ev'.phase = "returned") =>
          LET res == ev'.data.data
              old == elements(coll)
              new == elements(coll')
              kept == IF ev'.call.append = Bool(TRUE) THEN Len(old) ELSE 0
          IN /\ Len(new) = kept + Len(res)
             /\ \A i \in 1..kept : new[i] = old[i]
             /\ \A j \in 1..Len(res) : InsertedFrom(new[kept + j], res[j])]_vars

\* an appending query has put two models, built from data and handed over as
\* an instance, behind a phantom model that a caller had pushed
C20_Witness ==
    /\ ev.op = "query" /\ ev.phase = "returned" /\ ev.call.append = Bool(TRUE)
    /\ Len(ev.data.data) = 2
    /\ ev.data.data[1].kind = "data" /\ ev.data.data[2].kind = "model"
    /\ Len(coll._models) = 3
    /\ isPhantom(elements(coll)[1])
    /\ ~isPhantom(elements(coll)[2]) /\ ~isPhantom(elements(coll)[3])
    /\ get(elements(coll)[2], "name") = Str("foobar")

\* params is the permanent parameters overlaid with the per-call ones
Overlaid(params, permanent, given) ==
    /\ DOMAIN params = DOMAIN permanent \cup DOMAIN given
    /\ \A k \in DOMAIN params :
          params[k] = (IF k \in DOMAIN given THEN given[k] ELSE permanent[k])

\* C18: load(), save(), destroy() and Collection.query() call the adapter
\* with the instance as first argument and, as parameters, the permanent
\* parameters of that instance overlaid with the per-call ones: every key of
\* either, the per-call value where both have the key.
C18_ParamsOverlaid ==
    (ev.phase = "called" /\ ev.op \in {"load", "save", "destroy", "query"}) =>
        /\ Len(ev.invoked) = 1
        /\ ev.invoked[1].instance = (IF ev.op = "query" THEN "collection" ELSE "model")
        /\ Overlaid(ev.invoked[1].params,
                    IF ev.op = "query" THEN coll._queryParams ELSE model._queryParams,
                    ev.given)

\* a save called with p1 = foo on a model whose permanent parameters are
\* p1 = baz and p2 = bar has sent p1 = foo and p2 = bar
C18_Witness ==
    /\ ev.op = "save" /\ ev.phase = "called"
    /\ model._queryParams = [p1 |-> "baz", p2 |-> "bar"]
    /\ ev.given = [p1 |-> "foo"]
    /\ ev.invoked[1].params = [p1 |-> "foo", p2 |-> "bar"]

\* the three operations that change permanent parameters, and the reading of
\* the accessor
ParamOps == {"setQueryParam", "setQueryParams", "removeQueryParam"}
CollParamOps ==
    {"collection.setQueryParam", "collection.setQueryParams", "collection.removeQueryParam"}

\* the operation of that name on the collection
OfCollection(op) ==
    CASE op = "collection.setQueryParam" -> "setQueryParam"
      [] op = "collection.setQueryParams" -> "setQueryParams"
      [] op = "collection.removeQueryParam" -> "removeQueryParam"
      [] OTHER -> ""

\* new is what the operation op of an instance, called with the arguments
\* given, makes of its permanent parameters old; any other operation leaves
\* them as they are
ParamsAfter(op, given, old, new) ==
    CASE op = "setQueryParam" ->
            /\ DOMAIN new = DOMAIN old \cup DOMAIN given
            /\ \A k \in DOMAIN new : new[k] = (IF k \in DOMAIN given THEN given[k] ELSE old[k])
      [] op = "setQueryParams" ->
            Overlaid(new, old, given)
      [] op = "removeQueryParam" ->
            /\ DOMAIN new = DOMAIN old \ DOMAIN given
            /\ \A k \in DOMAIN new : new[k] = old[k]
      [] OTHER -> new = old

PushedAs(before, after, pos, el) ==
    LET r == after._models[pos]
        m == after.heap[r]
        fresh == /\ r \notin DOMAIN before.heap
                 /\ \A i \in DOMAIN after._models : i # pos => after._models[i] # r
    IN CASE el.kind = "ref" -> r = el.ref
         [] el.kind = "model" -> fresh /\ m = el.model
         [] el.kind = "data" -> fresh /\ instanceOf(m, modelCls) /\ Applied(m, el.data)

\* C21: push of N items (one item, or an array of N) makes length() grow by
\* exactly N, leaves the elements already there and their positions alone and
\* puts the N new elements behind them in input order; a model instance is
\* inserted by reference, a plain data object becomes a new model of the
\* bound type that holds the data as set stores them.
C21_Push ==
    [][ev'.op = "push" =>
          LET els == ev'.data.data
              old == length(coll)
          IN /\ length(coll') = old + Len(els)
             /\ SubSeq(coll'._models, 1, old) = coll._models
             /\ \A r \in DOMAIN coll.heap : coll'.heap[r] = coll.heap[r]
             /\ \A j \in 1..Len(els) : PushedAs(coll, coll', old + j, els[j])]_vars

\* an array of a plain data object and a model the collection holds already
\* was pushed behind that model: the data came out mutated at position 2 and
\* position 3 is the instance of position 1
C21_Witness ==
    /\ ev.op = "push" /\ Len(ev.data.data) = 2
    /\ ev.data.data[1].kind = "data" /\ ev.data.data[2].kind = "ref"
    /\ length(coll) = 3
    /\ coll._models[3] = coll._models[1] /\ coll._models[2] # coll._models[1]
    /\ get(elements(coll)[2], "alwaysPlusOne") = Num(2)

\* seq without the element at its position i (one-based)
Without(seq, i) == SubSeq(seq, 1, i - 1) \o SubSeq(seq, i + 1, Len(seq))

\* two sequences of references of one length in which the same positions
\* share an instance
SameSharing(a, b) ==
    /\ Len(a) = Len(b)
    /\ \A i, j \in DOMAIN a : (a[i] = a[j]) <=> (b[i] = b[j])

\* the collection `after` is `before` with position i left out: the other
\* elements, in their order, with their state and their sharing
RemovedAt(before, after, i) ==
    /\ elements(after) = Without(elements(before), i)
    /\ SameSharing(Without(before._models, i), after._models)

\* C22: remove(index) with 0 <= index < length() takes out exactly the
\* element at that position, and remove(model) with a model the collection
\* holds takes out one position holding that model; the remaining elements
\* keep their relative order. remove with an index that is negative or not
\* below length(), or with a model the collection does not hold, leaves the
\* collection as it was. No call raises an error.
C22_Remove ==
    [][ev'.op = "remove" =>
          LET el == ev'.given
          IN /\ ev'.phase = "done"
             /\ CASE el.kind = "index" /\ el.index >= 0 /\ el.index < length(coll) ->
                       RemovedAt(coll, coll', el.index + 1)
                  [] el.kind = "ref" ->
                       \E i \in DOMAIN coll._models :
                           coll._models[i] = el.ref /\ RemovedAt(coll, coll', i)
                  [] OTHER -> coll' = coll]_vars

\* remove(1) took the middle one of three different elements: a committed
\* model stayed first, a dirty one last
C22_Witness ==
    /\ ev.op = "remove" /\ ev.given = Index(1)
    /\ length(coll) = 2
    /\ coll._models[1] # coll._models[2]
    /\ ~isDirty(elements(coll)[1]) /\ isDirty(elements(coll)[2])

\* C23: after any sequence of push, remove, clear and query, every element of
\* the collection is an instance of the collection's bound model type.
C23_AsStated ==
    \A i \in DOMAIN coll._models : instanceOf(elements(coll)[i], modelCls)

\* C24: the backing array of a collection is never replaced: after every
\* push, remove, clear and query step getModels() returns the array object
\* it returned before the step; clear() empties that array in place, and so
\* does a query without append before it inserts its result.
C24_SameBackingArray ==
    [][/\ getModels(coll').array = getModels(coll).array
       /\ ev'.op = "clear" => getModels(coll').items = <<>>
       /\ (ev'.op = "query" /\ ev'.phase = "returned" /\ ev'.call.append # Bool(TRUE)) =>
              Len(getModels(coll').items) = Len(ev'.data.data)]_vars

\* clear() was called on a collection that held models: the array the
\* constructor made is still the backing array, and it is empty
C24_Witness ==
    /\ ev.op = "clear" /\ ev.given.length > 0
    /\ getModels(coll) = [array |-> getModels(emptyCollection).array, items |-> <<>>]

\* C25: first() and last() return null on an empty collection and otherwise
\* the element at position 0 and the one at position length() - 1; at(i)
\* returns the element at position i when 0 <= i < length() and null for every
\* other integer, the negative ones included. None of the three raises an
\* error or changes the collection.
C25_FirstLastAt ==
    [][ev'.op \in {"first", "last", "at"} =>
          LET n == length(coll)
              items == getModels(coll).items
              expected ==
                  CASE ev'.op = "first" -> IF n = 0 THEN null ELSE items[1]
                    [] ev'.op = "last" -> IF n = 0 THEN null ELSE items[n]
                    [] ev'.op = "at" -> IF ev'.given.index \in 0..(n - 1)
                                        THEN items[ev'.given.index + 1]
                                        ELSE null
          IN /\ ev'.phase = "done"
             /\ coll' = coll
             /\ ev'.data.data = <<[ref |-> expected]>>]_vars

\* at(-1) returned null on a collection of three models
C25_Witness ==
    /\ ev.op = "at" /\ ev.given = Index(-1)
    /\ length(coll) = 3
    /\ ev.data.data[1].ref = null

\* the positions of the collection that hold a dirty model
DirtyPositions(this) == {i \in DOMAIN this._models : isDirty(elements(this)[i])}

\* the k-th smallest member of a set of positions
Nth(S, k) == CHOOSE i \in S : Cardinality({j \in S : j < i}) = k - 1

\* C26: getDirtyModels() returns a new array that lists exactly the contained
\* models whose isDirty() is true, one entry per position holding one, in
\* collection order, and leaves the collection unchanged.
C26_GetDirtyModels ==
    [][ev'.op = "getDirtyModels" =>
          LET result == ev'.data.data[1]
              dirty == DirtyPositions(coll)
          IN /\ coll' = coll
             /\ result.array # getModels(coll).array
             /\ Len(result.items) = Cardinality(dirty)
             /\ \A k \in 1..Len(result.items) :
                    result.items[k] = getModels(coll).items[Nth(dirty, k)]]_vars

\* getDirtyModels() on a dirty, a committed and another dirty model
\* returned the first and the third
C26_Witness ==
    /\ ev.op = "getDirtyModels"
    /\ length(coll) = 3
    /\ DirtyPositions(coll) = {1, 3}
    /\ coll._models[1] # coll._models[3]
    /\ ev.data.data[1].items = <<coll._models[1], coll._models[3]>>

(* ------------------------------------------------------------------ *)
(* Writes seen from inside, and the lifecycle flags                       *)
(* ------------------------------------------------------------------ *)

\* what a read of this.seen shows the mutation function: the raw value of
\* the last write stored there, undefined when nothing is stored
SeenBefore(this) ==
    IF "seen" \in DOMAIN this.props /\ DOMAIN this.props["seen"] = {"seen"}
    THEN this.props["seen"].seen.raw
    ELSE Undefined

\* C27: in a write to a non-internal property p the snapshot is captured
\* before the mutation function runs and the value is stored after it: p has
\* a snapshot entry after the write, and a mutation function that reads its
\* context finds p in the snapshot and isDirty() true and still reads the
\* value stored before the write. A write to a reserved internal field
\* stores the value as given and leaves snapshot and data properties alone.
C27_CaptureMutateStore ==
    [][(ev'.op \in {"assign", "set", "setPhantom"} /\ ev'.phase = "done") =>
          \A p \in DOMAIN ev'.data.data :
              IF p \in internalModelProps
              THEN /\ model'[p] = ev'.data.data[p]
                   /\ p \notin DOMAIN model'._dirtyProps
                   /\ DOMAIN ev'.data.data = {p} =>
                          /\ model'._dirtyProps = model._dirtyProps
                          /\ model'.props = model.props
              ELSE /\ p \in DOMAIN model'._dirtyProps
                   /\ p = "seen" =>
                          get(model', p) = [seen |-> [raw |-> ev'.data.data[p],
                                                      dirty |-> TRUE,
                                                      captured |-> TRUE,
                                                      old |-> SeenBefore(model)]]]_vars

\* on a model that was clean and held the result of a first write, a second
\* write ran the mutation function: it found the model dirty already and
\* read the value of the first write, which is also what the snapshot holds
C27_Witness ==
    /\ ev.op = "assign" /\ ev.phase = "done"
    /\ DOMAIN model._dirtyProps = {"seen"}
    /\ DOMAIN model._dirtyProps["seen"] = {"seen"}
    /\ model._dirtyProps["seen"].seen.raw = Num(0)
    /\ get(model, "seen") = [seen |-> [raw |-> Num(1), dirty |-> TRUE,
                                        captured |-> TRUE, old |-> Num(0)]]

\* the lifecycle flags of an instance
Flags(this) == <<isPhantom(this), isDestroyed(this)>>

\* the step wrote properties: an assignment, set, commit or rollback
IsPropertyStep(e) == e.op \in {"assign", "setKey", "set", "commit", "rollback"}

\* the property or patch of the step names a lifecycle flag
NamesFlag(e) == DOMAIN e.data.data \cap {"_isPhantom", "_isDestroyed"} # {}

\* C28 as stated: property writes, set, commit and rollback never change the
\* lifecycle flags: isPhantom() and isDestroyed() are after such a step what
\* they were before it.
C28_AsStated ==
    [][IsPropertyStep(ev') => Flags(model') = Flags(model)]_vars

\* C28, amended: a property write, set, commit or rollback leaves
\* isPhantom() and isDestroyed() as they were unless the property written or
\* a key of the patch is the internal field _isPhantom or _isDestroyed; on
\* one instance, the only other steps that change them are load, save,
\* destroy and setPhantom.
C28_FlagsChangeOnlyByName ==
    [][/\ (IsPropertyStep(ev') /\ ~NamesFlag(ev')) => Flags(model') = Flags(model)
       /\ (Flags(model') # Flags(model) /\ ev'.op # "new") =>
              \/ IsPropertyStep(ev') /\ NamesFlag(ev')
              \/ IsSettleStep(ev')
              \/ ev'.op = "setPhantom"]_vars

\* a patch that names no flag was set on a destroyed model that had been
\* marked as not phantom: the flags are still those
C28_Witness ==
    /\ ev.op = "set" /\ ev.phase = "done" /\ DOMAIN ev.data.data = {"seen"}
    /\ Flags(model) = <<FALSE, TRUE>>

\* C29: the defaults a subtype declares are applied as tracked writes after
\* the constructor's initial commit: a freshly constructed model holds each
\* declared default as its mutation function returns it, every declared
\* field has a snapshot entry, and isDirty() is true exactly when the subtype
\* declares at least one field.
C29_DefaultsAreTrackedWrites ==
    ev.op = "new" =>
        LET declared == ev.given.declared
        IN /\ \A k \in declared : get(model, k) = Stored(k, declaredObject(defaults)[k])
           /\ DOMAIN model._dirtyProps = declared
           /\ isDirty(model) <=> declared # {}
           /\ isPhantom(model) /\ ~isDestroyed(model)

\* a new TestModel: alwaysPlusOne declared as 0 holds 1, and the model is dirty
C29_Witness ==
    /\ ev.op = "new" /\ ev.given.declared = {"name", "alwaysPlusOne"}
    /\ instanceOf(model, "TestModel")
    /\ get(model, "alwaysPlusOne") = Num(1) /\ get(model, "name") = Str("leer")
    /\ isDirty(model)

(* ------------------------------------------------------------------ *)
(* Patches the library applies                                            *)
(* ------------------------------------------------------------------ *)

\* `after` holds what set(data) makes of `before`, and every key of data
\* with a mutation function holds what the function returns for the value
\* the data carry
PatchApplied(before, after, data) ==
    /\ after.props = Caught(set(before, data)).props
    /\ \A k \in DOMAIN data \cap mutations : get(after, k) = Stored(k, data[k])

\* C30: every patch the library applies to a model goes through the write
\* path of set: after load, save or destroy succeeded with a patch, after
\* commit(patch), and in the model push builds from a plain data object, the
\* properties are those set(patch) yields, each key with a mutation function
\* holding the mutated value.
C30_PatchesGoThroughSet ==
    [][/\ (IsSettleStep(ev') /\ ev'.phase = "returned" /\ ~ev'.data.null) =>
              PatchApplied(model, model', ev'.data.data)
       /\ (ev'.op = "commit" /\ ~ev'.data.null) =>
              PatchApplied(model, model', ev'.data.data)
       /\ (ev'.op = "push" /\ ev'.data.data[1].kind = "data") =>
              PatchApplied(constructOf(modelCls, defaults),
                           elements(coll')[length(coll')], ev'.data.data[1].data)]_vars

\* push built a model from the data object { alwaysPlusOne: 1 }, which holds
\* 2, next to a persisted model whose last write was the patch
\* { alwaysPlusOne: 0 } an adapter answered with, which holds 1
C30_Witness ==
    /\ ev.op = "push" /\ ev.data.data[1] = Data([alwaysPlusOne |-> Num(1)])
    /\ get(elements(coll)[length(coll)], "alwaysPlusOne") = Num(2)
    /\ written = [name |-> Str("leer"), alwaysPlusOne |-> Num(0)]
    /\ ~isPhantom(model) /\ ~isDirty(model)
    /\ get(model, "alwaysPlusOne") = Num(1)

(* ------------------------------------------------------------------ *)
(* Failures and overlapping calls                                         *)
(* ------------------------------------------------------------------ *)

\* C31: when the adapter call of query() fails, the caller's promise is
\* rejected with the adapter's reason and the collection holds what it held
\* before, whatever the append option says; the step up to the await leaves
\* the contents alone too, so the collection is cleared only once the
\* adapter call has succeeded.
C31_QueryFailureKeepsContents ==
    [][ev'.op = "query" =>
          /\ ev'.phase = "called" => coll' = coll
          /\ (ev'.settled.settled /\ ~ev'.settled.ok) =>
                /\ ev'.phase = "thrown"
                /\ ev'.reason = ev'.settled.reason
                /\ coll' = coll
          /\ (ev'.settled.settled /\ ev'.settled.ok) => ev'.phase = "returned"]_vars

\* a query without append has failed on a collection of two models, which
\* are still there
C31_Witness ==
    /\ ev.op = "query" /\ ev.phase = "thrown" /\ ev.reason = "timeout"
    /\ ev.call.append = Undefined
    /\ length(coll) = 2

\* C32 as stated: in every state reached by construction, property writes,
\* set, commit, rollback and load, save and destroy calls that do not
\* overlap, without setPhantom, a model for which isDestroyed() holds is a
\* phantom.
C32_AsStated ==
    isDestroyed(model) => isPhantom(model)

\* the model is destroyed only if it is a phantom
DestroyedIsPhantom(this) == isDestroyed(this) => isPhantom(this)

\* C32: a new model is not destroyed, and every step of construction, of a
\* property write, set, commit or rollback that names neither _isPhantom nor
\* _isDestroyed, and of a load, save or destroy call that does not overlap
\* another, keeps "isDestroyed() implies isPhantom()"; a write or patch that
\* names one of the two fields is stored directly and can break it.
C32_DestroyedIsPhantom ==
    /\ ~isDestroyed(construct)
    /\ [][(DestroyedIsPhantom(model) /\ ~NamesFlag(ev')) =>
              DestroyedIsPhantom(model')]_vars

\* a destroy of a persisted, dirty model has succeeded with no patch: the
\* model is destroyed, phantom and still dirty
C32_Witness ==
    /\ ev.op = "destroy" /\ ev.phase = "returned" /\ ev.call.method = "delete"
    /\ isDestroyed(model) /\ isPhantom(model)
    /\ isDirty(model) /\ ~NamesFlag(ev)

CreatesInFlight(calls) ==
    BagCardinality([c \in {d \in BagToSet(calls) : d.op = "save" /\ d.method = "create"} |->
                       CopiesIn(c, calls)])

\* C34: save() reads the phantom flag before the adapter call and leaves the
\* instance as it is until the call settles; so a save() started on a
\* phantom model while the create of an earlier save() is in flight invokes
\* create, not update, and two creates are in flight.
C34_OverlappingSavesCreateTwice ==
    [][(ev'.op = "save" /\ ev'.phase = "called") =>
          /\ model' = model
          /\ (isPhantom(model) /\ CreatesInFlight(pending) >= 1) =>
                /\ Len(ev'.invoked) = 1 /\ ev'.invoked[1].method = "create"
                /\ CreatesInFlight(pending') = CreatesInFlight(pending) + 1]_vars

\* a second save() has been started on a new model before the first one's
\* create settled: two creates are in flight
C34_Witness ==
    /\ ev.op = "save" /\ ev.phase = "called" /\ ev.invoked[1].method = "create"
    /\ CreatesInFlight(pending) = 2
    /\ isPhantom(model) /\ ~isDestroyed(model) /\ ~persisted

\* the properties that differ from what they were when the call's adapter
\* method was invoked
ChangedSince(this, call) ==
    {k \in DOMAIN this.props : get(this, k) # Read(call.sent, k)}

\* C35: when a load() or save() succeeds, its commit takes in what was
\* written while the adapter call was in flight: the model is not dirty, a
\* property written after the adapter was invoked has no snapshot entry and
\* keeps the written value (unless the adapter's patch names it).
C35_WritesWhilePendingAreCommitted ==
    [][(ev'.op \in {"load", "save"} /\ IsSettleStep(ev') /\ ev'.phase = "returned") =>
          /\ ~isDirty(model')
          /\ \A k \in ChangedSince(model, ev'.call) :
                /\ k \notin DOMAIN model'._dirtyProps
                /\ k \notin DOMAIN ev'.data.data => get(model', k) = get(model, k)]_vars

\* a save has succeeded on a model whose name was "leer" when the adapter
\* was invoked and was written to "foobar" before the call settled: the
\* model holds "foobar" and is not dirty
C35_Witness ==
    /\ ev.op = "save" /\ ev.phase = "returned"
    /\ ev.call.sent["name"] = Str("leer") /\ get(model, "name") = Str("foobar")
    /\ ~isDirty(model) /\ "name" \notin DOMAIN model._dirtyProps

\* C36: when calls overlap, the lifecycle flags are those of the call whose
\* adapter promise settled last: a load or save that succeeds leaves the
\* model neither phantom nor destroyed, a destroy that succeeds leaves it
\* phantom and destroyed, whatever has settled since the call began. So a
\* save whose update was invoked before a delete succeeded leaves a model
\* that is neither phantom nor destroyed.
C36_LastSettledCallSetsFlags ==
    (IsSettleStep(ev) /\ ev.settled.ok) =>
        Flags(model) = IF ev.op = "destroy" THEN <<TRUE, TRUE>> ELSE <<FALSE, FALSE>>

\* a save succeeded by the update path whose adapter method was invoked when
\* alwaysPlusOne was 1, on a model where the patch of a successful delete has
\* made it 2 since: the model is neither phantom nor destroyed
C36_Witness ==
    /\ ev.op = "save" /\ ev.phase = "returned" /\ ev.call.method = "update"
    /\ ev.call.sent["alwaysPlusOne"] = Num(1)
    /\ get(model, "alwaysPlusOne") = Num(2)
    /\ ~isPhantom(model) /\ ~isDestroyed(model)

\* C37: the part of query() after the adapter call, clear() and the
\* insertion of the results, is one step, whatever other queries are in
\* flight: after a query without append has succeeded the collection holds
\* exactly the models of that call's result, in result order, so after two
\* overlapping queries the contents are those of the call that settled last
\* and never a mix.
C37_LastSettledQueryWins ==
    (ev.op = "query" /\ ev.phase = "returned" /\ ev.call.append # Bool(TRUE)) =>
        LET res == ev.data.data
        IN /\ length(coll) = Len(res)
           /\ \A j \in 1..Len(res) : InsertedFrom(elements(coll)[j], res[j])

\* a query without append succeeded with two items; the collection was
\* empty when its adapter was invoked and held one model when it resumed,
\* put there by a query that succeeded meanwhile; it holds the two
C37_Witness ==
    /\ ev.op = "query" /\ ev.phase = "returned" /\ ev.call.append = Undefined
    /\ ev.call.held = 0 /\ ev.given.length = 1
    /\ Len(ev.data.data) = 2 /\ length(coll) = 2

\* the model at position i was built from the plain data object `data` and
\* never committed: it is dirty, every key of the data has a snapshot entry
\* and getDirtyModels() lists it
BuiltDirty(this, i, data) ==
    /\ isDirty(elements(this)[i])
    /\ DOMAIN data \subseteq DOMAIN elements(this)[i]._dirtyProps
    /\ \E k \in DOMAIN getDirtyModels(this).items :
          getDirtyModels(this).items[k] = this._models[i]

\* C38: a model that push() or query() builds from a plain data object with
\* at least one key is dirty, the data being applied through set and never
\* committed: after a successful query() each such model is not phantom and
\* dirty and getDirtyModels() lists it, and after push() of such an object
\* the model at the end is dirty.
C38_BuiltModelsAreDirty ==
    /\ (ev.op = "query" /\ ev.phase = "returned") =>
          \A j \in DOMAIN ev.data.data :
              (ev.data.data[j].kind = "data" /\ DOMAIN ev.data.data[j].data # {}) =>
                  LET i == length(coll) - Len(ev.data.data) + j
                  IN /\ ~isPhantom(elements(coll)[i])
                     /\ BuiltDirty(coll, i, ev.data.data[j].data)
    /\ (ev.op = "push" /\ ev.data.data[1].kind = "data"
           /\ DOMAIN ev.data.data[1].data # {}) =>
          BuiltDirty(coll, length(coll), ev.data.data[1].data)

\* a query has replaced the contents by two models built from data: both
\* are dirty and not phantom, and getDirtyModels() lists the two
C38_Witness ==
    /\ ev.op = "query" /\ ev.phase = "returned" /\ ev.call.append = Bool(FALSE)
    /\ Len(ev.data.data) = 2
    /\ \A j \in 1..2 : ev.data.data[j].kind = "data"
    /\ Len(getDirtyModels(coll).items) = 2
    /\ \A i \in 1..2 : isDirty(elements(coll)[i]) /\ ~isPhantom(elements(coll)[i])

\* the fields the subtype of the instance declares
DeclaredBy(this) ==
    DOMAIN declaredObject((CHOOSE t \in Subtypes : t.cls = this._className).fields)

\* C39: on a new model the dirty snapshot holds undefined for every declared
\* field (the field initialisers are the first writes after the
\* constructor's commit), and as long as the model has not been committed
\* since, rollback() leaves every declared field undefined, not at its
\* declared default, and the model not dirty.
C39_RollbackOfNewModel ==
    [][/\ ev'.op = "new" =>
              \A k \in ev'.given.declared :
                  k \in DOMAIN model'._dirtyProps /\ model'._dirtyProps[k] = Undefined
       /\ (ev'.op = "rollback" /\ committed = EmptyObject) =>
              /\ \A k \in DeclaredBy(model) : get(model', k) = Undefined
              /\ ~isDirty(model')]_vars

\* a new TestModel, never committed, has been rolled back: name and
\* alwaysPlusOne are undefined and the model is not dirty
C39_Witness ==
    /\ ev.op = "rollback" /\ committed = EmptyObject
    /\ instanceOf(model, "TestModel")
    /\ written = EmptyObject
    /\ get(model, "name") = Undefined /\ get(model, "alwaysPlusOne") = Undefined
    /\ ~isDirty(model)

\* the positions of the collection that hold the instance behind reference r
Occurrences(this, r) == {i \in DOMAIN this._models : this._models[i] = r}

\* the least position in S
First(S) == CHOOSE i \in S : \A j \in S : i <= j

\* C40: remove(model) takes out the first position holding the model and no
\* other: when the collection holds the same instance at k >= 2 positions,
\* one remove(model) lowers length() by exactly 1, leaves the other elements
\* in their order, and the instance is still at k - 1 positions, so
\* contains(model) is true.
C40_RemoveTakesFirstOccurrence ==
    [][(ev'.op = "remove" /\ ev'.given.kind = "ref"
           /\ Cardinality(Occurrences(coll, ev'.given.ref)) >= 2) =>
          LET occ == Occurrences(coll, ev'.given.ref)
              rest == Without(coll._models, First(occ))
              j == CHOOSE j \in DOMAIN rest : rest[j] = ev'.given.ref
          IN /\ contains(coll, ev'.given)
             /\ length(coll') = length(coll) - 1
             /\ RemovedAt(coll, coll', First(occ))
             /\ contains(coll', Contained(coll'._models[j]))
             /\ Cardinality(Occurrences(coll', coll'._models[j])) = Cardinality(occ) - 1]_vars

\* remove(model) on a collection of three that held the model at two
\* positions, the first among them: two positions are left, one of them
\* holding the model, the other a model in another state
C40_Witness ==
    /\ ev.op = "remove" /\ ev.given = Contained(1) /\ ev.data.data[2].held = 2
    /\ length(coll) = 2 /\ coll._models = <<1, 2>>
    /\ ~isDirty(elements(coll)[1]) /\ isDirty(elements(coll)[2])
====
